---------------------------- MODULE Spec2Model ----------------------------
(***************************************************************************)
(* Russian checkers: the rule engine (rules.js), the game controller       *)
(* (chess.js), the renderer's event handlers (main.js) and the data flow   *)
(* of the search (chess-ai.js).                                            *)
(*                                                                         *)
(* A board is board[y][x], as in the source.  A piece is a record          *)
(* [color, isKing, ref].  JavaScript piece objects are mutable and are     *)
(* shared between the board, selectedPiece, multiJumpPiece and the         *)
(* multiJumpBefore entries of moveHistory; ref names the object when it is *)
(* referenced from outside the board (ref = 0: only the board holds it).   *)
(***************************************************************************)
EXTENDS Integers, Sequences, FiniteSets, TLC

VARIABLES
    board,                      \* ChessGame.board
    currentPlayer,              \* ChessGame.currentPlayer
    capturedPieces,             \* ChessGame.capturedPieces
    gameState,                  \* ChessGame.gameState
    moveHistory,                \* ChessGame.moveHistory
    selectedPiece,              \* ChessGame.selectedPiece
    validMoves,                 \* ChessGame.validMoves
    multiJumpPiece,             \* ChessGame.multiJumpPiece
    mustJump,                   \* ChessGame.mustJump
    canOnlySelectJumpingPieces, \* ChessGame.canOnlySelectJumpingPieces
    humanPlayer,                \* ChessRenderer.humanPlayer
    computerPlayer,             \* ChessRenderer.computerPlayer
    isComputerThinking,         \* ChessRenderer.isComputerThinking
    timers,                     \* pending setTimeout callbacks of makeComputerMove
    call,                       \* the operation that ran last, its arguments and result
    before,                     \* the game as it was when the last successful movePiece began
    rulesOut,                   \* value returned by the last direct call of a rule function
    ai,                         \* ChessAI.makeMove in progress: its loop and its call stack
    remote                      \* a multiplayer match: the room of the server, the moves it
                                \* relays, and the game of the other peer

gameVars == <<board, currentPlayer, capturedPieces, gameState, moveHistory,
              selectedPiece, validMoves, multiJumpPiece, mustJump,
              canOnlySelectJumpingPieces>>
uiVars == <<humanPlayer, computerPlayer, isComputerThinking, timers, remote>>
obsVars == <<call, before, rulesOut>>
vars == <<gameVars, uiVars, obsVars, ai>>

-----------------------------------------------------------------------------
(* Board model *)

BoardSize == 8
Coord == 0 .. (BoardSize - 1)
Colors == {"red", "yellow"}

NoPiece == [color |-> "none", isKing |-> FALSE, ref |-> 0]
Man(c) == [color |-> c, isKing |-> FALSE, ref |-> 0]
King(c) == [color |-> c, isKing |-> TRUE, ref |-> 0]

EmptyBoard == [y \in Coord |-> [x \in Coord |-> NoPiece]]

\* truthiness of board[y][x]
Occupied(b, x, y) == b[y][x].color # "none"

SetCell(b, x, y, p) == [b EXCEPT ![y][x] = p]

Opponent(c) == IF c = "red" THEN "yellow" ELSE "red"

\* colour and rank of every square: what JSON.stringify keeps of a board
Plain(b) == [y \in Coord |-> [x \in Coord |-> [b[y][x] EXCEPT !.ref = 0]]]

PieceCount(b, c) == Cardinality({s \in Coord \X Coord : b[s[2]][s[1]].color = c})

createInitialBoard ==
    [y \in Coord |-> [x \in Coord |->
        IF (x + y) % 2 # 0
        THEN IF y < 3 THEN Man("yellow")
             ELSE IF y > 4 THEN Man("red")
             ELSE NoPiece
        ELSE NoPiece]]

-----------------------------------------------------------------------------
(* Rule engine: rules.js *)

red_move == <<<<-1, -1>>, <<1, -1>>>>
yellow_move == <<<<-1, 1>>, <<1, 1>>>>
all_capture == <<<<-1, -1>>, <<1, -1>>, <<-1, 1>>, <<1, 1>>>>
king_move == <<<<-1, -1>>, <<1, -1>>, <<-1, 1>>, <<1, 1>>>>

isInBounds(x, y) == x >= 0 /\ x < BoardSize /\ y >= 0 /\ y < BoardSize

shouldPromote(color, y) ==
    (color = "red" /\ y = 0) \/ (color = "yellow" /\ y = BoardSize - 1)

RECURSIVE Flatten(_)
Flatten(ss) == IF ss = <<>> THEN <<>> ELSE Head(ss) \o Flatten(Tail(ss))

\* the king loop of getRegularMoves for one direction, from distance dist on
RECURSIVE KingSlide(_, _, _, _, _, _)
KingSlide(b, x, y, dx, dy, dist) ==
    LET newX == x + dx * dist
        newY == y + dy * dist
    IN  IF dist >= BoardSize THEN <<>>
        ELSE IF ~isInBounds(newX, newY) THEN <<>>
        ELSE IF Occupied(b, newX, newY) THEN <<>>
        ELSE <<<<newX, newY>>>> \o KingSlide(b, x, y, dx, dy, dist + 1)

\* a step that stays on the row of the piece
ManStep_Sideways(b, x, y, dx, dy) ==
    LET newX == x + dx
        newY == y
    IN  IF isInBounds(newX, newY) /\ ~Occupied(b, newX, newY)
        THEN <<<<newX, newY>>>>
        ELSE <<>>

ManStep(b, x, y, dx, dy) ==
    LET newX == x + dx
        newY == y + dy
    IN  IF isInBounds(newX, newY) /\ ~Occupied(b, newX, newY)
        THEN <<<<newX, newY>>>>
        ELSE <<>>

\* getRegularMoves letting a man step along all four diagonals
getRegularMoves_AllDirections(b, x, y, piece) ==
    IF piece.color = "none" THEN <<>>
    ELSE Flatten([i \in 1 .. Len(king_move) |->
             IF piece.isKing
             THEN KingSlide(b, x, y, king_move[i][1], king_move[i][2], 1)
             ELSE ManStep(b, x, y, king_move[i][1], king_move[i][2])])

getRegularMoves(b, x, y, piece) ==
    IF piece.color = "none" THEN <<>>
    ELSE LET moveDirections ==
                 IF piece.isKing THEN king_move
                 ELSE IF piece.color = "red" THEN red_move ELSE yellow_move
         IN  Flatten([i \in 1 .. Len(moveDirections) |->
                 IF piece.isKing
                 THEN KingSlide(b, x, y, moveDirections[i][1], moveDirections[i][2], 1)
                 ELSE ManStep(b, x, y, moveDirections[i][1], moveDirections[i][2])])

\* the king loop of findSingleJumps for one direction, from distance dist on
RECURSIVE KingJumpScan(_, _, _, _, _, _, _, _, _, _)
\* the king loop that stops at the first landing square
KingJumpScan_FirstLanding(b, x, y, dx, dy, opponentColor, dist, opponentFound, captureX, captureY) ==
    LET checkX == x + dx * dist
        checkY == y + dy * dist
    IN  IF dist >= BoardSize THEN <<>>
        ELSE IF ~isInBounds(checkX, checkY) THEN <<>>
        ELSE IF Occupied(b, checkX, checkY)
             THEN IF b[checkY][checkX].color = opponentColor /\ ~opponentFound
                  THEN KingJumpScan(b, x, y, dx, dy, opponentColor, dist + 1,
                                    TRUE, checkX, checkY)
                  ELSE <<>>
             ELSE IF opponentFound
                  THEN <<<<checkX, checkY, captureX, captureY>>>>
                  ELSE KingJumpScan(b, x, y, dx, dy, opponentColor, dist + 1,
                                    opponentFound, captureX, captureY)

KingJumpScan(b, x, y, dx, dy, opponentColor, dist, opponentFound, captureX, captureY) ==
    LET checkX == x + dx * dist
        checkY == y + dy * dist
    IN  IF dist >= BoardSize THEN <<>>
        ELSE IF ~isInBounds(checkX, checkY) THEN <<>>
        ELSE IF Occupied(b, checkX, checkY)
             THEN IF b[checkY][checkX].color = opponentColor /\ ~opponentFound
                  THEN KingJumpScan(b, x, y, dx, dy, opponentColor, dist + 1,
                                    TRUE, checkX, checkY)
                  ELSE <<>>
             ELSE IF opponentFound
                  THEN <<<<checkX, checkY, captureX, captureY>>>>
                       \o KingJumpScan(b, x, y, dx, dy, opponentColor, dist + 1,
                                       opponentFound, captureX, captureY)
                  ELSE KingJumpScan(b, x, y, dx, dy, opponentColor, dist + 1,
                                    opponentFound, captureX, captureY)

ManJump(b, x, y, dx, dy, opponentColor) ==
    LET captureX == x + dx
        captureY == y + dy
        landX == x + dx * 2
        landY == y + dy * 2
    IN  IF isInBounds(captureX, captureY) /\ isInBounds(landX, landY)
        THEN IF b[captureY][captureX].color = opponentColor /\ ~Occupied(b, landX, landY)
             THEN <<<<landX, landY, captureX, captureY>>>>
             ELSE <<>>
        ELSE <<>>

findSingleJumps(b, x, y, piece) ==
    IF piece.color = "none" THEN <<>>
    ELSE LET opponentColor == Opponent(piece.color)
         IN  Flatten([i \in 1 .. Len(all_capture) |->
                 IF piece.isKing
                 THEN KingJumpScan(b, x, y, all_capture[i][1], all_capture[i][2],
                                   opponentColor, 1, FALSE, -1, -1)
                 ELSE ManJump(b, x, y, all_capture[i][1], all_capture[i][2],
                              opponentColor)])

\* one simulated hop of findPaths: the board after it
PathStep(b, x, y, jump) ==
    LET pieceToMove == b[y][x]
        moved == SetCell(SetCell(b, jump[1], jump[2], [pieceToMove EXCEPT !.ref = 0]),
                         x, y, NoPiece)
        taken == IF Occupied(moved, jump[3], jump[4])
                 THEN SetCell(moved, jump[3], jump[4], NoPiece)
                 ELSE moved
        pieceAfterJump == taken[jump[2]][jump[1]]
    IN  IF ~pieceAfterJump.isKing /\ shouldPromote(pieceAfterJump.color, jump[2])
        THEN SetCell(taken, jump[1], jump[2], [pieceAfterJump EXCEPT !.isKing = TRUE])
        ELSE taken

\* findPaths: the sequences pushed to finalJumpSequences below one call, in order.
\* A path lists its hops last hop first, as newPath does.
RECURSIVE findPaths(_, _, _, _, _)
RECURSIVE findPathsFrom(_, _, _, _, _, _)
findPaths(b, x, y, currentPiece, pathSoFar) ==
    LET singleJumps == findSingleJumps(b, x, y, currentPiece)
    IN  IF singleJumps = <<>>
        THEN IF Len(pathSoFar) > 0 THEN <<pathSoFar>> ELSE <<>>
        ELSE findPathsFrom(b, x, y, singleJumps, pathSoFar, 1)

findPathsFrom(b, x, y, singleJumps, pathSoFar, i) ==
    IF i > Len(singleJumps) THEN <<>>
    ELSE LET jump == singleJumps[i]
             rest == findPathsFrom(b, x, y, singleJumps, pathSoFar, i + 1)
         IN  IF ~Occupied(b, x, y) THEN rest
             ELSE LET nextBoard == PathStep(b, x, y, jump)
                      pieceAfterJump == nextBoard[jump[2]][jump[1]]
                      promotedThisStep == ~b[y][x].isKing /\ pieceAfterJump.isKing
                      newPath == <<jump>> \o pathSoFar
                  IN  (IF promotedThisStep
                       THEN <<newPath>>
                       ELSE findPaths(nextBoard, jump[1], jump[2], pieceAfterJump, newPath))
                      \o rest

\* the reformatting loop without its duplicate test
FirstSteps_KeepDuplicates(paths, formattedMoves) ==
    formattedMoves \o [k \in 1 .. Len(paths) |-> paths[k][Len(paths[k])]]

\* the reformatting loop of getJumpMoves: first hops, duplicates dropped
RECURSIVE FirstSteps(_, _)
FirstSteps(paths, formattedMoves) ==
    IF paths = <<>> THEN formattedMoves
    ELSE LET path == Head(paths)
             firstStepMove == path[Len(path)]
         IN  IF \E k \in 1 .. Len(formattedMoves) : formattedMoves[k] = firstStepMove
             THEN FirstSteps(Tail(paths), formattedMoves)
             ELSE FirstSteps(Tail(paths), Append(formattedMoves, firstStepMove))

getJumpMoves(b, x, y, piece) ==
    IF piece.color = "none" THEN <<>>
    ELSE FirstSteps(findPaths(b, x, y, piece, <<>>), <<>>)

\* hasMandatoryJumps looking at the pieces of the other colour
hasMandatoryJumps_OtherColour(b, color) ==
    IF color \notin Colors THEN FALSE
    ELSE \E y \in Coord, x \in Coord :
            /\ b[y][x].color = Opponent(color)
            /\ findSingleJumps(b, x, y, b[y][x]) # <<>>

hasMandatoryJumps(b, color) ==
    IF color \notin Colors THEN FALSE
    ELSE \E y \in Coord, x \in Coord :
            /\ b[y][x].color = color
            /\ findSingleJumps(b, x, y, b[y][x]) # <<>>

\* getValidMoves without the mustJump branch
getValidMoves_NoMandatory(b, x, y, piece) ==
    LET jumpMoves == getJumpMoves(b, x, y, piece)
    IN  IF Len(jumpMoves) > 0 THEN jumpMoves
        ELSE getRegularMoves(b, x, y, piece)

getValidMoves(b, x, y, piece) ==
    IF piece.color = "none" THEN <<>>
    ELSE LET must == hasMandatoryJumps(b, piece.color)
             jumpMoves == getJumpMoves(b, x, y, piece)
         IN  IF must THEN jumpMoves
             ELSE IF Len(jumpMoves) > 0 THEN jumpMoves
             ELSE getRegularMoves(b, x, y, piece)

\* redMovesAvailable / yellowMovesAvailable of checkWinner
MovesAvailable(b, color) ==
    \E y \in Coord, x \in Coord :
        /\ b[y][x].color = color
        /\ \/ Len(findSingleJumps(b, x, y, b[y][x])) > 0
           \/ Len(getRegularMoves(b, x, y, b[y][x])) > 0

\* checkWinner without its last case
checkWinner_NoStalemateDraw(b) ==
    LET redPieces == PieceCount(b, "red")
        yellowPieces == PieceCount(b, "yellow")
        redMovesAvailable == MovesAvailable(b, "red")
        yellowMovesAvailable == MovesAvailable(b, "yellow")
    IN  IF redPieces = 0 /\ yellowPieces > 0 THEN "yellow"
        ELSE IF yellowPieces = 0 /\ redPieces > 0 THEN "red"
        ELSE IF redPieces = 0 /\ yellowPieces = 0 THEN "draw"
        ELSE IF ~redMovesAvailable /\ yellowMovesAvailable THEN "yellow"
        ELSE IF ~yellowMovesAvailable /\ redMovesAvailable THEN "red"
        ELSE "null"

\* checkWinner awarding the game to the side that cannot move
checkWinner_StuckSideWins(b) ==
    LET redPieces == PieceCount(b, "red")
        yellowPieces == PieceCount(b, "yellow")
        redMovesAvailable == MovesAvailable(b, "red")
        yellowMovesAvailable == MovesAvailable(b, "yellow")
    IN  IF redPieces = 0 /\ yellowPieces > 0 THEN "yellow"
        ELSE IF yellowPieces = 0 /\ redPieces > 0 THEN "red"
        ELSE IF redPieces = 0 /\ yellowPieces = 0 THEN "draw"
        ELSE IF ~redMovesAvailable /\ yellowMovesAvailable THEN "red"
        ELSE IF ~yellowMovesAvailable /\ redMovesAvailable THEN "yellow"
        ELSE IF ~redMovesAvailable /\ ~yellowMovesAvailable
                /\ redPieces > 0 /\ yellowPieces > 0 THEN "draw"
        ELSE "null"

checkWinner(b) ==
    LET redPieces == PieceCount(b, "red")
        yellowPieces == PieceCount(b, "yellow")
        redMovesAvailable == MovesAvailable(b, "red")
        yellowMovesAvailable == MovesAvailable(b, "yellow")
    IN  IF redPieces = 0 /\ yellowPieces > 0 THEN "yellow"
        ELSE IF yellowPieces = 0 /\ redPieces > 0 THEN "red"
        ELSE IF redPieces = 0 /\ yellowPieces = 0 THEN "draw"
        ELSE IF ~redMovesAvailable /\ yellowMovesAvailable THEN "yellow"
        ELSE IF ~yellowMovesAvailable /\ redMovesAvailable THEN "red"
        ELSE IF ~redMovesAvailable /\ ~yellowMovesAvailable
                /\ redPieces > 0 /\ yellowPieces > 0 THEN "draw"
        ELSE "null"


-----------------------------------------------------------------------------
(* Game controller: chess.js.  The handlers are functions of the game      *)
(* object g, a record of the fields of ChessGame.                          *)

NoSel == [x |-> -1, y |-> -1, piece |-> NoPiece]

IsSet(s) == s.x # -1

Game == [board |-> board, currentPlayer |-> currentPlayer,
         capturedPieces |-> capturedPieces, gameState |-> gameState,
         moveHistory |-> moveHistory, selectedPiece |-> selectedPiece,
         validMoves |-> validMoves, multiJumpPiece |-> multiJumpPiece,
         mustJump |-> mustJump,
         canOnlySelectJumpingPieces |-> canOnlySelectJumpingPieces]

GameIs(g) ==
    /\ board = g.board
    /\ currentPlayer = g.currentPlayer
    /\ capturedPieces = g.capturedPieces
    /\ gameState = g.gameState
    /\ moveHistory = g.moveHistory
    /\ selectedPiece = g.selectedPiece
    /\ validMoves = g.validMoves
    /\ multiJumpPiece = g.multiJumpPiece
    /\ mustJump = g.mustJump
    /\ canOnlySelectJumpingPieces = g.canOnlySelectJumpingPieces

SetGame(g) ==
    /\ board' = g.board
    /\ currentPlayer' = g.currentPlayer
    /\ capturedPieces' = g.capturedPieces
    /\ gameState' = g.gameState
    /\ moveHistory' = g.moveHistory
    /\ selectedPiece' = g.selectedPiece
    /\ validMoves' = g.validMoves
    /\ multiJumpPiece' = g.multiJumpPiece
    /\ mustJump' = g.mustJump
    /\ canOnlySelectJumpingPieces' = g.canOnlySelectJumpingPieces

checkMandatoryJumps(g) ==
    LET must == hasMandatoryJumps(g.board, g.currentPlayer)
    IN  [g EXCEPT !.mustJump = must,
                  !.canOnlySelectJumpingPieces = must,
                  !.multiJumpPiece = IF must THEN @ ELSE NoSel]

\* updateGameState that never ends the game
updateGameState_AlwaysActive(g) ==
    checkMandatoryJumps([g EXCEPT !.gameState = "active"])

updateGameState(g) ==
    LET winner == checkWinner(g.board)
        g1 == [g EXCEPT !.gameState =
                  IF winner = "red" THEN "red_win"
                  ELSE IF winner = "yellow" THEN "yellow_win"
                  ELSE IF winner = "draw" THEN "draw"
                  ELSE "active"]
    IN  IF g1.gameState = "active" THEN checkMandatoryJumps(g1) ELSE g1

\* new ChessGame(), on a given starting position
NewGame(b, player, captured) ==
    checkMandatoryJumps(
        [board |-> b, currentPlayer |-> player, capturedPieces |-> captured,
         gameState |-> "active", moveHistory |-> <<>>, selectedPiece |-> NoSel,
         validMoves |-> <<>>, multiJumpPiece |-> NoSel, mustJump |-> FALSE,
         canOnlySelectJumpingPieces |-> FALSE])

\* isJump expecting the longer move format of whole jump paths
IsJumpMove_FiveOrMore(move) == Len(move) > 4

IsJumpMove(move) == Len(move) > 2

\* validMoves.every(move => !Array.isArray(move) || move.length <= 2)
NoJumpIn(moves) == \A k \in 1 .. Len(moves) : Len(moves[k]) <= 2

\* selectPiece(x, y): the game afterwards and the value returned
selectPiece(g, x, y) ==
    IF IsSet(g.multiJumpPiece)
    THEN IF g.multiJumpPiece.x = x /\ g.multiJumpPiece.y = y
         THEN IF ~Occupied(g.board, x, y)
              THEN [g |-> [g EXCEPT !.selectedPiece = g.multiJumpPiece,
                                    !.validMoves = <<>>],
                    ret |-> FALSE]
              ELSE LET jumps == findSingleJumps(g.board, x, y, g.board[y][x])
                   IN  [g |-> [g EXCEPT !.selectedPiece = g.multiJumpPiece,
                                        !.validMoves = jumps],
                        ret |-> Len(jumps) > 0]
         ELSE [g |-> g, ret |-> FALSE]
    ELSE LET piece == g.board[y][x]
             cleared == [g EXCEPT !.selectedPiece = NoSel, !.validMoves = <<>>]
         IN  IF g.canOnlySelectJumpingPieces
                /\ (piece.color = "none" \/ piece.color # g.currentPlayer)
             THEN [g |-> g, ret |-> FALSE]
             ELSE IF g.canOnlySelectJumpingPieces
                     /\ Len(getJumpMoves(g.board, x, y, piece)) = 0
             THEN [g |-> cleared, ret |-> FALSE]
             ELSE IF piece.color = "none" \/ piece.color # g.currentPlayer
                     \/ g.gameState # "active"
             THEN [g |-> cleared, ret |-> FALSE]
             ELSE LET moves == getValidMoves(g.board, x, y, piece)
                  IN  IF g.mustJump /\ NoJumpIn(moves)
                      THEN [g |-> cleared, ret |-> FALSE]
                      ELSE IF Len(moves) = 0
                      THEN [g |-> cleared, ret |-> FALSE]
                      ELSE [g |-> [g EXCEPT !.selectedPiece =
                                                [x |-> x, y |-> y, piece |-> piece],
                                            !.validMoves = moves],
                            ret |-> TRUE]

\* the first move of validMoves that lands on (toX, toY); <<>> when there is none
ChosenMove(moves, toX, toY) ==
    LET hits == {k \in 1 .. Len(moves) : moves[k][1] = toX /\ moves[k][2] = toY}
    IN  IF hits = {} THEN <<>>
        ELSE moves[CHOOSE k \in hits : \A j \in hits : k <= j]

\* piece.isKing = true, seen through every multiJumpBefore that holds the object
PromoteInHistory(h, ref) ==
    [k \in 1 .. Len(h) |->
        IF ref # 0 /\ h[k].multiJumpBefore.piece.ref = ref
        THEN [h[k] EXCEPT !.multiJumpBefore.piece.isKing = TRUE]
        ELSE h[k]]

\* movePiece(toX, toY): the game afterwards and the value returned
movePiece(g, toX, toY) ==
    LET chosenMove == ChosenMove(g.validMoves, toX, toY)
    IN
    IF ~IsSet(g.selectedPiece) \/ g.gameState # "active"
    THEN [g |-> g, ret |-> FALSE]
    ELSE IF chosenMove = <<>>
    THEN [g |-> g, ret |-> FALSE]
    ELSE
    LET fromX == g.selectedPiece.x
        fromY == g.selectedPiece.y
        piece == g.selectedPiece.piece
        boardBefore == Plain(g.board)
        capturedBefore == g.capturedPieces
        playerBefore == g.currentPlayer
        multiJumpBefore == g.multiJumpPiece
        isJump == IsJumpMove(chosenMove)
        originalPiece == piece
        b1 == SetCell(SetCell(g.board, toX, toY, piece), fromX, fromY, NoPiece)
        capX == IF isJump THEN chosenMove[3] ELSE -1
        capY == IF isJump THEN chosenMove[4] ELSE -1
        takes == isJump /\ isInBounds(capX, capY) /\ Occupied(b1, capX, capY)
        captured == IF takes THEN b1[capY][capX] ELSE NoPiece
        capturedAfter ==
            IF takes
            THEN [g.capturedPieces EXCEPT
                     ![captured.color] = Append(@, [captured EXCEPT !.ref = 0])]
            ELSE g.capturedPieces
        b2 == IF takes THEN SetCell(b1, capX, capY, NoPiece) ELSE b1
        promoted == ~originalPiece.isKing /\ shouldPromote(piece.color, toY)
        pieceAtDestination == IF promoted THEN [piece EXCEPT !.isKing = TRUE] ELSE piece
        b3 == SetCell(b2, toX, toY, pieceAtDestination)
        entry == [boardBefore |-> boardBefore, playerBefore |-> playerBefore,
                  capturedBefore |-> capturedBefore,
                  multiJumpBefore |-> multiJumpBefore]
        pushed == Append(g.moveHistory, entry)
        history == IF promoted THEN PromoteInHistory(pushed, piece.ref) ELSE pushed
        furtherJumps == IF isJump /\ ~promoted
                        THEN findSingleJumps(b3, toX, toY, pieceAtDestination)
                        ELSE <<>>
        canContinueJump == Len(furtherJumps) > 0
        \* the moved object is held by multiJumpPiece from now on
        held == IF pieceAtDestination.ref # 0 THEN pieceAtDestination
                ELSE [pieceAtDestination EXCEPT !.ref = Len(history)]
        sel == [x |-> toX, y |-> toY, piece |-> held]
    IN  IF canContinueJump
        THEN [g |-> [g EXCEPT !.board = SetCell(b3, toX, toY, held),
                              !.capturedPieces = capturedAfter,
                              !.moveHistory = history,
                              !.selectedPiece = sel,
                              !.validMoves = furtherJumps,
                              !.multiJumpPiece = sel,
                              !.mustJump = TRUE,
                              !.canOnlySelectJumpingPieces = TRUE],
              ret |-> TRUE]
        ELSE [g |-> updateGameState(checkMandatoryJumps(
                        [g EXCEPT !.board = b3,
                                  !.capturedPieces = capturedAfter,
                                  !.moveHistory = history,
                                  !.currentPlayer = Opponent(g.currentPlayer),
                                  !.selectedPiece = NoSel,
                                  !.validMoves = <<>>,
                                  !.multiJumpPiece = NoSel])),
              ret |-> TRUE]

\* undoMove that leaves capturedPieces as they are
undoMove_KeepCaptured(g, thinking, human) ==
    IF Len(g.moveHistory) = 0 THEN [g |-> g, ret |-> FALSE]
    ELSE IF thinking THEN [g |-> g, ret |-> FALSE]
    ELSE IF IsSet(g.multiJumpPiece) /\ g.currentPlayer = human
    THEN [g |-> g, ret |-> FALSE]
    ELSE LET lastState == g.moveHistory[Len(g.moveHistory)]
         IN  [g |-> updateGameState(
                  [checkMandatoryJumps(
                      [g EXCEPT !.moveHistory = SubSeq(@, 1, Len(@) - 1),
                                !.board = lastState.boardBefore,
                                !.currentPlayer = lastState.playerBefore,
                                !.multiJumpPiece = lastState.multiJumpBefore,
                                !.selectedPiece = NoSel,
                                !.validMoves = <<>>])
                   EXCEPT !.gameState = "active"]),
              ret |-> TRUE]

\* undoMove(): the game afterwards and the value returned
undoMove(g, thinking, human) ==
    IF Len(g.moveHistory) = 0 THEN [g |-> g, ret |-> FALSE]
    ELSE IF thinking THEN [g |-> g, ret |-> FALSE]
    ELSE IF IsSet(g.multiJumpPiece) /\ g.currentPlayer = human
    THEN [g |-> g, ret |-> FALSE]
    ELSE LET lastState == g.moveHistory[Len(g.moveHistory)]
         IN  [g |-> updateGameState(
                  [checkMandatoryJumps(
                      [g EXCEPT !.moveHistory = SubSeq(@, 1, Len(@) - 1),
                                !.board = lastState.boardBefore,
                                !.capturedPieces = lastState.capturedBefore,
                                !.currentPlayer = lastState.playerBefore,
                                !.multiJumpPiece = lastState.multiJumpBefore,
                                !.selectedPiece = NoSel,
                                !.validMoves = <<>>])
                   EXCEPT !.gameState = "active"]),
              ret |-> TRUE]


-----------------------------------------------------------------------------
(* Move generation of the search: chess-ai.js.                             *)

pieceValues == [regular |-> 100, king |-> 400]

\* F applied to v, with v computed once
Once(v, F(_)) == CHOOSE r \in {F(x) : x \in {v}} : TRUE

Abs(n) == IF n < 0 THEN -n ELSE n

\* |x - 3.5| + |y - 3.5|, doubled
CenterDist2(x, y) == Abs(2 * x - 7) + Abs(2 * y - 7)

scoreMoveHeuristic(b, move) ==
    LET piece == b[move.fromY][move.fromX]
        capturedPiece ==
            IF move.isJump /\ isInBounds(move.captureX, move.captureY)
            THEN b[move.captureY][move.captureX] ELSE NoPiece
        jumpScore ==
            IF ~move.isJump THEN 0
            ELSE 2000 + (IF capturedPiece.color = "none" THEN 0
                         ELSE IF capturedPiece.isKing THEN pieceValues.king * 2
                         ELSE (pieceValues.regular * 3) \div 2)
        promotionScore ==
            IF ~piece.isKing /\ shouldPromote(piece.color, move.toY)
            THEN (pieceValues.king * 3) \div 2 ELSE 0
        kingScore ==
            IF ~piece.isKing THEN 0
            ELSE (CenterDist2(move.fromX, move.fromY)
                    - CenterDist2(move.toX, move.toY))
                 - (IF move.toX \in {0, 7} \/ move.toY \in {0, 7} THEN 10 ELSE 0)
        forwardDir == IF piece.color = "yellow" THEN 1 ELSE -1
        advanceScore ==
            IF ~piece.isKing /\ ~move.isJump
               /\ (move.toY - move.fromY) * forwardDir > 0
            THEN 5 ELSE 0
    IN  jumpScore + promotionScore + kingScore + advanceScore

\* the move objects of one piece, in the order of the raw move list
MovesOfPiece(b, x, y, raw, isJump) ==
    [k \in 1 .. Len(raw) |->
        LET move == [fromX |-> x, fromY |-> y, toX |-> raw[k][1],
                     toY |-> raw[k][2], isJump |-> isJump,
                     captureX |-> IF isJump THEN raw[k][3] ELSE -1,
                     captureY |-> IF isJump THEN raw[k][4] ELSE -1,
                     score |-> 0]
        IN  [move EXCEPT !.score = scoreMoveHeuristic(b, move)]]

\* the squares from index i on, rows first, that hold a piece of the colour
SquaresFrom(b, color, i) ==
    {j \in i .. BoardSize * BoardSize - 1 :
        b[j \div BoardSize][j % BoardSize].color = color}

\* one pass of getAllPossibleMoves over the board, rows first, from square i
\* on; the squares without a piece of the colour add nothing
RECURSIVE ScanMoves(_, _, _, _)
ScanMoves(b, color, isJump, i) ==
    IF SquaresFrom(b, color, i) = {} THEN <<>>
    ELSE Once(CHOOSE j \in SquaresFrom(b, color, i) :
                  \A k \in SquaresFrom(b, color, i) : j <= k,
              LAMBDA j :
                  Once(IF isJump
                       THEN getJumpMoves(b, j % BoardSize, j \div BoardSize,
                                         b[j \div BoardSize][j % BoardSize])
                       ELSE getRegularMoves(b, j % BoardSize, j \div BoardSize,
                                            b[j \div BoardSize][j % BoardSize]),
                       LAMBDA raw : MovesOfPiece(b, j % BoardSize,
                                                 j \div BoardSize, raw, isJump))
                      \o ScanMoves(b, color, isJump, j + 1))

\* getAllPossibleMoves that adds the regular moves to the jumps
getAllPossibleMoves_JumpsAndRegular(b, color, jumpsOnly) ==
    Once(ScanMoves(b, color, TRUE, 0),
         LAMBDA jumps : IF jumpsOnly THEN jumps
                        ELSE jumps \o ScanMoves(b, color, FALSE, 0))

getAllPossibleMoves(b, color, jumpsOnly) ==
    Once(ScanMoves(b, color, TRUE, 0),
         LAMBDA jumps : IF jumpsOnly \/ Len(jumps) > 0 THEN jumps
                        ELSE ScanMoves(b, color, FALSE, 0))

\* moves.sort by descending score; equal scores keep their order
sortMoves(moves) ==
    LET n == Len(moves)
        \* how many moves come before moves[i] once sorted
        Ahead(i) == Cardinality({j \in 1 .. n :
                        \/ moves[j].score > moves[i].score
                        \/ moves[j].score = moves[i].score /\ j < i})
    IN  [k \in 1 .. n |-> moves[CHOOSE i \in 1 .. n : Ahead(i) = k - 1]]

\* possibleMoves at the root and at every node: jumps first, else regular
possibleMoves(b, color) ==
    Once(getAllPossibleMoves(b, color, TRUE),
         LAMBDA jumps :
             IF Len(jumps) > 0 THEN sortMoves(jumps)
             ELSE Once(getAllPossibleMoves(b, color, FALSE),
                       LAMBDA moves : sortMoves(moves)))

\* makeMove(): the search settles on bestMoveOverall, one of the moves of the
\* root, and plays it through selectPiece and movePiece; with no move at
\* all it calls updateGameState and returns false
makeMove(g, bestMoveOverall) ==
    IF bestMoveOverall = <<>>
    THEN [g |-> updateGameState(g), ret |-> FALSE]
    ELSE LET pieceSelected ==
                 selectPiece(g, bestMoveOverall.fromX, bestMoveOverall.fromY)
         IN  IF pieceSelected.ret
             THEN movePiece(pieceSelected.g, bestMoveOverall.toX,
                            bestMoveOverall.toY)
             ELSE [g |-> pieceSelected.g, ret |-> FALSE]

-----------------------------------------------------------------------------
(* Starting positions.  Besides the opening position, a run may start from *)
(* a position that legal play reaches from it; each is given with the      *)
(* moves (fromX fromY - toX toY, red first) that lead to it and with the   *)
(* capturedPieces lists those moves leave.                                 *)

Place(pieces) ==
    [y \in Coord |-> [x \in Coord |->
        IF \E p \in pieces : p[1] = x /\ p[2] = y
        THEN LET p == CHOOSE q \in pieces : q[1] = x /\ q[2] = y
             IN  [color |-> p[3], isKing |-> p[4], ref |-> 0]
        ELSE NoPiece]]

\* a capturedPieces list: one piece of colour c per entry of kings (TRUE: a king)
Taken(c, kings) ==
    [i \in 1 .. Len(kings) |-> [color |-> c, isKing |-> kings[i], ref |-> 0]]

MenTaken(c, n) == Taken(c, [i \in 1 .. n |-> FALSE])

Opening ==
    [board |-> createInitialBoard, player |-> "red",
     captured |-> [red |-> <<>>, yellow |-> <<>>]]

\* 25-34 12-23 34-12 21-03 05-14 03-25 16-34 10-21 27-16 52-63 65-74 63-54
\* 45-63 72-54 56-65 61-52 65-43 43-61 70-52 74-63 52-74 36-25 50-61 47-36
\* 61-72 34-43 32-54 76-65 74-56 67-45 45-63 72-54 25-34 01-12 36-45 54-36
\* 16-05 41-32 34-23 12-34 07-16 30-41 16-25 36-14 05-23 23-45 41-52 45-34
\* 32-23
\* A red man that can jump twice, promote on the second hop, and would have a
\* further jump as a king.
ChainToPromotion ==
    [board |-> Place({<<2, 1, "yellow", FALSE>>, <<5, 2, "yellow", FALSE>>,
                      <<2, 3, "yellow", FALSE>>, <<3, 4, "red", FALSE>>}),
     player |-> "red",
     captured |-> [red |-> MenTaken("red", 11), yellow |-> MenTaken("yellow", 9)]]

\* 25-34 12-23 34-12 21-03 16-25 72-63 25-14 03-25 36-14 52-43 65-74 43-34
\* 74-52 41-63 45-23 23-41 50-32 14-23 32-14 05-23 01-12 23-01 63-74 76-65
\* 61-52 47-36 52-63 65-54 63-45 56-34 74-65 67-56 65-47 34-23 47-14 14-41
\* 27-16 41-52 16-25 52-16 07-25 30-41 25-34 70-61 34-43 41-32 43-21 10-32
\* 01-10 61-52
\* A red king with a long jump and a second jump after it.
KingChain ==
    [board |-> Place({<<1, 0, "red", TRUE>>, <<3, 2, "yellow", FALSE>>,
                      <<5, 2, "yellow", FALSE>>}),
     player |-> "red",
     captured |-> [red |-> MenTaken("red", 11),
                   yellow |-> Taken("yellow", <<FALSE, FALSE, FALSE, FALSE, FALSE,
                                                FALSE, FALSE, FALSE, TRUE, FALSE>>)]]

\* 45-34 52-43 34-52 41-63 65-54 63-45 56-34 50-41 67-56 41-52 05-14 30-41
\* 14-23 32-14 25-03 21-32 03-21 21-43 41-32 43-21 10-32 34-23 32-14 16-25
\* 72-63 25-03 52-43 76-65 43-54 65-43 01-12 03-21 61-52 43-61 70-52 27-16
\* 52-43 21-30 63-74 30-52 43-61 16-25 61-52 56-65 74-56 47-65 52-43 65-74
\* 43-54 36-45 54-36 36-14 74-63 14-05 07-16
\* A yellow man that promotes by a jump and would have a further jump as a king.
JumpToPromotion ==
    [board |-> Place({<<6, 3, "red", FALSE>>, <<0, 5, "yellow", FALSE>>,
                      <<1, 6, "red", FALSE>>}),
     player |-> "yellow",
     captured |-> [red |-> Taken("red", <<FALSE, FALSE, FALSE, FALSE, FALSE, FALSE,
                                          TRUE, FALSE, FALSE, FALSE>>),
                   yellow |-> MenTaken("yellow", 11)]]

\* 45-34 32-23 65-54 23-45 45-63 76-65 12-23 25-34 23-45 56-34 01-12 67-76
\* 10-01 65-74 12-23 34-12 21-03 05-14 03-25 36-14 30-21 27-36 41-32 14-03
\* 32-43 36-25 21-12 03-21 43-54 21-10 54-45 47-56 45-67 25-14 01-12 10-65
\* 67-23 14-32 12-03 32-41 52-30 74-52 61-43 65-32 70-61 32-14 03-25 16-34
\* 30-21 34-23 21-32 23-41 50-32 76-65 72-63 65-74 32-43
\* A red man whose second hop either promotes or lands in mid-board.
ChainWithChoice ==
    [board |-> Place({<<6, 1, "yellow", FALSE>>, <<4, 3, "yellow", FALSE>>,
                      <<6, 3, "yellow", FALSE>>, <<7, 4, "red", FALSE>>,
                      <<0, 7, "red", FALSE>>}),
     player |-> "red",
     captured |-> [red |-> Taken("red", <<FALSE, FALSE, FALSE, FALSE, FALSE, FALSE,
                                          FALSE, FALSE, TRUE, FALSE>>),
                   yellow |-> Taken("yellow", <<FALSE, FALSE, FALSE, FALSE, TRUE,
                                                FALSE, FALSE, FALSE, FALSE>>)]]

\* 05-14 12-03 65-54 52-63 25-34 03-25 25-43 43-65 56-74 74-52 61-43 47-56
\* 43-54 45-63 72-54 36-45 54-36 27-45 32-23 45-54 23-34 76-65 01-12 67-76
\* 41-52 54-43 50-61 43-25 21-32 65-74 10-01 25-34 30-21 34-23 32-14 56-45
\* 21-32 45-34 14-05 74-63 05-27 63-41 41-23 61-52 23-32 52-43 34-52 12-23
\* 32-14 27-54 14-23 54-10 23-32 10-65 76-54 01-12 52-61 70-52 54-43 52-34
\* 07-16 12-03 16-05 03-14
\* A red man that takes yellow's last two pieces in one chain.
LastTwo ==
    [board |-> Place({<<1, 4, "yellow", FALSE>>, <<3, 4, "yellow", FALSE>>,
                      <<0, 5, "red", FALSE>>}),
     player |-> "red",
     captured |-> [red |-> MenTaken("red", 11),
                   yellow |-> Taken("yellow", <<FALSE, FALSE, FALSE, FALSE, FALSE,
                                                FALSE, FALSE, FALSE, FALSE, TRUE>>)]]

\* 65-74 32-23 25-34 52-63 74-52 61-43 43-25 16-34 50-61 76-65 12-03 34-12
\* 01-23 27-16 61-52 36-25 41-32 65-74 23-34 25-43 43-61 70-52 74-63 52-74
\* 56-65 74-56 56-34 47-36 03-14 05-23 23-41 30-52 16-05 72-63 07-16 21-32
\* 36-25 63-74 25-43 43-61 32-23 61-70 10-01 70-52 23-34 52-25 01-12 25-34
\* 12-03 34-12 03-21 67-76 21-12 76-65 74-56 16-25 12-03 05-14 56-67 25-34
\* A yellow man and a yellow king that can each take red's last two men: the
\* one that takes the first leaves the second to both.
RivalCaptors ==
    [board |-> Place({<<0, 3, "yellow", FALSE>>, <<1, 4, "red", FALSE>>,
                      <<3, 4, "red", FALSE>>, <<6, 7, "yellow", TRUE>>}),
     player |-> "yellow",
     captured |-> [red |-> Taken("red", <<FALSE, FALSE, FALSE, FALSE, FALSE, FALSE,
                                          FALSE, FALSE, TRUE, FALSE>>),
                   yellow |-> MenTaken("yellow", 10)]]

\* 25-14 72-63 36-25 32-43 65-74 43-34 25-43 52-34 45-23 12-34 74-52 41-63
\* 76-65 61-52 47-36 70-61 36-45 21-32 45-23 23-41 50-32 67-76 63-54 65-43
\* 43-21 10-32 56-45 52-43 45-54 43-65 76-54 01-12 14-23 12-34 16-25 34-16
\* 07-25 30-21 27-16 61-52 54-43 52-34 25-43 32-54
\* Two men a side and no capture on offer.
QuietEnding ==
    [board |-> Place({<<2, 1, "yellow", FALSE>>, <<5, 4, "yellow", FALSE>>,
                      <<0, 5, "red", FALSE>>, <<1, 6, "red", FALSE>>}),
     player |-> "red",
     captured |-> [red |-> MenTaken("red", 10), yellow |-> MenTaken("yellow", 10)]]

\* 25-14 32-43 14-03 12-23 65-54 43-65 56-74 41-32 74-63 72-54 45-63 63-41
\* 30-52 03-12 21-03 47-56 23-34 36-25 10-21 25-43 52-34 16-25 34-16 07-25
\* 61-72 56-65 72-63 05-14 01-12 67-56 63-54 65-43 32-54 14-23 12-34 34-16
\* 27-05 50-61 56-65 61-52 65-43 43-61 70-52 05-14 03-25 76-65 21-32 65-54
\* 32-43 54-32 52-43 32-54
\* One man a side, far apart: both moves of the yellow man lead to positions
\* of the same value.
LoneMen ==
    [board |-> Place({<<2, 5, "yellow", FALSE>>, <<5, 4, "red", FALSE>>}),
     player |-> "yellow",
     captured |-> [red |-> MenTaken("red", 11), yellow |-> MenTaken("yellow", 11)]]

\* 25-14 52-63 16-25 12-03 45-54 63-45 36-54 72-63 54-72 41-52 27-36 52-63
\* 72-54 21-12 25-34 03-25 25-43 65-74 43-65 76-54 12-03 36-45 03-14 05-23
\* 23-41 50-32 56-65 61-52 54-43 32-54 54-36 47-25 30-41 74-63 52-74 74-56
\* 67-45 10-21 45-34 21-32 25-14 32-23 14-32 32-50 01-12 50-61 70-52 34-23
\* 12-34 07-16 34-25 16-34
\* One man a side: one move of the yellow man offers it to the red man.
OfferedMan ==
    [board |-> Place({<<5, 2, "yellow", FALSE>>, <<3, 4, "red", FALSE>>}),
     player |-> "yellow",
     captured |-> [red |-> Taken("red", <<FALSE, FALSE, FALSE, FALSE, FALSE, FALSE,
                                          FALSE, FALSE, FALSE, TRUE, FALSE>>),
                   yellow |-> MenTaken("yellow", 11)]]

\* 45-54 32-23 65-74 41-32 36-45 72-63 54-72 23-14 05-23 23-41 41-63 12-03
\* 56-65 21-12 47-36 30-21 67-56 21-32 45-54 32-23 25-14 23-05 54-43 61-52
\* 63-41 50-32 32-54 65-43 03-14 72-61 70-52 52-34 36-45 34-25 16-34 14-25
\* 34-16 10-21 56-65 12-23 27-36 05-27 74-63 21-12 45-34 27-54 54-72 65-54
\* 72-36 34-43 36-45 43-52 45-63 52-74 23-34 76-65 34-45 65-54 45-63 74-52
\* 12-23 52-61 23-34 61-70 01-12
\* A red king that takes a yellow man and may land on either of two squares.
KingStrike ==
    [board |-> Place({<<7, 0, "red", TRUE>>, <<1, 2, "yellow", FALSE>>,
                      <<3, 4, "yellow", FALSE>>, <<0, 7, "red", FALSE>>}),
     player |-> "red",
     captured |-> [red |-> MenTaken("red", 10),
                   yellow |-> Taken("yellow", <<FALSE, FALSE, FALSE, FALSE, FALSE,
                                                FALSE, FALSE, FALSE, TRUE, FALSE>>)]]

\* 25-34 12-23 34-12 21-03 45-54 01-12 54-43 52-34 65-54 32-43 54-32 41-23
\* 36-25 50-41 25-43 03-14 43-52 41-63 16-25 14-36 27-45 63-74 05-14 23-05
\* 76-65 05-16 07-25 30-21 25-34 10-01 65-54 61-52 67-76 52-43 54-32 32-10
\* 72-63 10-43 74-65 76-54 54-72 70-61 43-70 12-03 34-43 03-14 43-52 01-12
\* 47-36 14-05 72-61 05-16 52-41 12-03 45-54 16-27 41-50 27-45 45-67 50-23
\* 67-01 54-43 03-14 43-32 01-23 32-41
\* A yellow king with two jumps in a row; between the two, neither of the red
\* pieces left has a move.
BlockedInChain ==
    [board |-> Place({<<7, 0, "red", TRUE>>, <<4, 1, "red", FALSE>>,
                      <<6, 1, "red", FALSE>>, <<2, 3, "yellow", TRUE>>,
                      <<1, 4, "yellow", FALSE>>}),
     player |-> "yellow",
     captured |-> [red |-> Taken("red", <<FALSE, FALSE, FALSE, FALSE, FALSE,
                                          FALSE, FALSE, FALSE, TRUE>>),
                   yellow |-> MenTaken("yellow", 10)]]

StartPositions ==
    <<Opening, ChainToPromotion, KingChain, JumpToPromotion, ChainWithChoice, LastTwo,
      BlockedInChain>>

-----------------------------------------------------------------------------
(* The game controller driven directly: any sequence of selectPiece,       *)
(* movePiece and undoMove calls.                                           *)

MaxHistory == 2

NoCall == [op |-> "none", ret |-> FALSE, x |-> -1, y |-> -1]

\* the arguments are kept for a call that returned true
Called(op, ret, x, y) ==
    [op |-> op, ret |-> ret, x |-> IF ret THEN x ELSE -1,
     y |-> IF ret THEN y ELSE -1]

NoBefore == [valid |-> FALSE]

\* no match is played: this.socket is null
NoRemote == [joined |-> FALSE]

\* no makeMove is running
AiIdle == [phase |-> "idle", depth |-> 0, stack |-> <<>>, best |-> <<>>,
           runs |-> 0, timedOut |-> FALSE, done |-> <<>>]

\* what the game showed before a move: colour and rank of every square, the
\* captured lists, the side to move, the mandatory-jump flag, the state of the
\* game and the piece in the middle of a chain
Shown(g) == [valid |-> TRUE, board |-> Plain(g.board),
             capturedPieces |-> g.capturedPieces,
             currentPlayer |-> g.currentPlayer, mustJump |-> g.mustJump,
             gameState |-> g.gameState, multiJumpPiece |-> g.multiJumpPiece]

Init ==
    /\ \E i \in 1 .. Len(StartPositions) :
          GameIs(NewGame(StartPositions[i].board, StartPositions[i].player,
                         StartPositions[i].captured))
    /\ humanPlayer \in Colors
    /\ computerPlayer = "none"
    /\ isComputerThinking = FALSE
    /\ timers = 0
    /\ call = NoCall
    /\ before = NoBefore
    /\ rulesOut = <<>>
    /\ ai = AiIdle
    /\ remote = NoRemote

SelectPieceCall(x, y) ==
    \E r \in {selectPiece(Game, x, y)} :
        /\ SetGame(r.g)
        /\ call' = Called("selectPiece", r.ret, x, y)
        /\ before' = NoBefore
        /\ UNCHANGED <<uiVars, rulesOut, ai>>

MovePieceCall(toX, toY) ==
    /\ Len(moveHistory) < MaxHistory
    /\ \E r \in {movePiece(Game, toX, toY)} :
        /\ SetGame(r.g)
        /\ call' = Called("movePiece", r.ret, toX, toY)
        /\ before' = IF r.ret THEN Shown(Game) ELSE NoBefore
        /\ UNCHANGED <<uiVars, rulesOut, ai>>

UndoMoveCall ==
    \E r \in {undoMove(Game, isComputerThinking, humanPlayer)} :
        /\ SetGame(r.g)
        /\ call' = [op |-> "undoMove", ret |-> r.ret, x |-> -1, y |-> -1]
        /\ before' = IF call.op = "movePiece" /\ call.ret THEN before ELSE NoBefore
        /\ UNCHANGED <<uiVars, rulesOut, ai>>

Next ==
    \/ \E x \in Coord, y \in Coord : SelectPieceCall(x, y)
    \/ \E x \in Coord, y \in Coord : MovePieceCall(x, y)
    \/ UndoMoveCall

Spec == Init /\ [][Next]_vars

-----------------------------------------------------------------------------
(* The game controller of a multiplayer renderer: besides the calls of the *)
(* local player, the socket delivers the opponent's moves and whole boards. *)

\* the positions the two games of a match are in when the socket connects
PeerPositions == <<Opening, ChainToPromotion>>

\* new ChessRenderer(difficultyLevel, playerColor, socket, gameCode)
InitPeer ==
    /\ \E i \in 1 .. Len(PeerPositions) :
          GameIs(NewGame(PeerPositions[i].board, PeerPositions[i].player,
                         PeerPositions[i].captured))
    /\ humanPlayer \in Colors
    /\ computerPlayer = "none"
    /\ isComputerThinking = FALSE
    /\ timers = 0
    /\ call = NoCall
    /\ before = NoBefore
    /\ rulesOut = <<>>
    /\ ai = AiIdle
    /\ remote = NoRemote

\* a board as a 'gameState' message carries it: the positions a peer's game
\* can be in, rebuilt from JSON
PeerBoards == {Plain(PeerPositions[i].board) : i \in 1 .. Len(PeerPositions)}

\* the squares a 'move' message can name as its target and have accepted,
\* and its own from square for the targets that are not
MoveTargets(g, fromX, fromY) ==
    {<<g.validMoves[k][1], g.validMoves[k][2]>> : k \in 1 .. Len(g.validMoves)}
        \cup {<<fromX, fromY>>}

\* socket.on('move'), with this.opponentPlayer to move
SocketMove(fromX, fromY, toX, toY) ==
    /\ Len(moveHistory) < MaxHistory
    /\ gameState = "active"
    /\ currentPlayer = Opponent(humanPlayer)
    /\ \E s \in {selectPiece(Game, fromX, fromY)} :
       \E r \in {movePiece(s.g, toX, toY)} :
        /\ SetGame(r.g)
        /\ call' = Called("socketMove", r.ret, toX, toY)
        /\ before' = NoBefore
        /\ UNCHANGED <<uiVars, rulesOut, ai>>

\* socket.on('gameState'), with a board in the message; the message comes
\* while no move of the local game is on record
SocketGameState(b) ==
    /\ moveHistory = <<>>
    /\ board' = b
    /\ call' = Called("socketGameState", TRUE, -1, -1)
    /\ before' = NoBefore
    /\ UNCHANGED <<currentPlayer, capturedPieces, gameState, moveHistory,
                   selectedPiece, validMoves, multiJumpPiece, mustJump,
                   canOnlySelectJumpingPieces, uiVars, rulesOut, ai>>

NextPeer ==
    \/ \E x \in Coord, y \in Coord : SelectPieceCall(x, y)
    \/ \E x \in Coord, y \in Coord : MovePieceCall(x, y)
    \/ UndoMoveCall
    \/ \E fromX \in Coord, fromY \in Coord :
           \E to \in MoveTargets(selectPiece(Game, fromX, fromY).g, fromX, fromY) :
               SocketMove(fromX, fromY, to[1], to[2])
    \/ \E b \in PeerBoards : SocketGameState(b)

SpecPeer == InitPeer /\ [][NextPeer]_vars



-----------------------------------------------------------------------------
(* The rule functions called directly on well-formed boards: a scene with  *)
(* up to MaxExtra further pieces on free dark squares.                     *)

MaxExtra == 1

\* a red man at (2,5) next to a yellow man at (3,4), (4,3) empty
MandatoryJumpScene ==
    Place({<<2, 5, "red", FALSE>>, <<3, 4, "yellow", FALSE>>})

\* a king at (0,7), an opponent man at (3,4), the rest of the diagonal empty
KingLongJumpScene ==
    Place({<<0, 7, "red", TRUE>>, <<3, 4, "yellow", FALSE>>})

\* yellow men on rows 2 and 3 facing red men on rows 4 and 5: nobody can move
WallScene ==
    [y \in Coord |-> [x \in Coord |->
        IF (x + y) % 2 = 0 THEN NoPiece
        ELSE IF y \in {2, 3} THEN Man("yellow")
        ELSE IF y \in {4, 5} THEN Man("red")
        ELSE NoPiece]]

Scenes ==
    {EmptyBoard, MandatoryJumpScene, KingLongJumpScene, WallScene,
     ChainToPromotion.board, JumpToPromotion.board, ChainWithChoice.board}

\* a man never stands on the rank where it would have been promoted
WellPlaced(x, y, c, k) ==
    /\ (x + y) % 2 # 0
    /\ k \/ ~shouldPromote(c, y)

RECURSIVE WithExtras(_, _)
WithExtras(bs, n) ==
    IF n = 0 THEN bs
    ELSE LET prev == WithExtras(bs, n - 1)
         IN  prev \cup
             {SetCell(b, x, y, [color |-> c, isKing |-> k, ref |-> 0]) :
                 <<b, x, y, c, k>> \in
                     {t \in prev \X Coord \X Coord \X Colors \X BOOLEAN :
                         /\ ~Occupied(t[1], t[2], t[3])
                         /\ WellPlaced(t[2], t[3], t[4], t[5])}}

RuleBoards == WithExtras(Scenes, MaxExtra)

InitRules ==
    /\ \E b \in RuleBoards :
          GameIs(NewGame(b, "red", [red |-> <<>>, yellow |-> <<>>]))
    /\ humanPlayer = "red"
    /\ computerPlayer = "none"
    /\ isComputerThinking = FALSE
    /\ timers = 0
    /\ call = NoCall
    /\ before = NoBefore
    /\ rulesOut = <<>>
    /\ ai = AiIdle
    /\ remote = NoRemote

\* every rule function applied to the board
RulesCall ==
    /\ call.op = "none"
    /\ rulesOut' =
          [hasMandatoryJumps |-> [c \in Colors |-> hasMandatoryJumps(board, c)],
           getValidMoves |-> [y \in Coord |-> [x \in Coord |->
                                 getValidMoves(board, x, y, board[y][x])]],
           getRegularMoves |-> [y \in Coord |-> [x \in Coord |->
                                   getRegularMoves(board, x, y, board[y][x])]],
           findSingleJumps |-> [y \in Coord |-> [x \in Coord |->
                                   findSingleJumps(board, x, y, board[y][x])]],
           getJumpMoves |-> [y \in Coord |-> [x \in Coord |->
                                getJumpMoves(board, x, y, board[y][x])]],
           checkWinner |-> checkWinner(board)]
    /\ call' = [op |-> "rules", ret |-> TRUE, x |-> -1, y |-> -1]
    /\ UNCHANGED <<gameVars, uiVars, before, ai>>

NextRules == RulesCall

SpecRules == InitRules /\ [][NextRules]_vars

-----------------------------------------------------------------------------
(* The rule functions called with arguments that are not a piece on a      *)
(* square of a complete board: no board, no piece, a coordinate off the    *)
(* board, a board whose array lacks a row.  An argument list is a record:  *)
(* given (the board is not null), cells and missing (the rows the array    *)
(* lacks), x and y (the position), piece.  A result is the list returned,  *)
(* or raised when the call ends in a TypeError.                            *)

OffBoard == BoardSize

ArgCoord == -1 .. OffBoard

ArgBoards == {MandatoryJumpScene, KingLongJumpScene}

ArgPieces == {NoPiece, Man("red"), Man("yellow"), King("red"), King("yellow")}

Returned(moves) == [raised |-> FALSE, moves |-> moves]

Raised == [raised |-> TRUE, moves |-> <<>>]

\* what safe reads (board[y] ? board[y][x] : undefined) see: nothing in a
\* row that the array lacks
RowsLeft(a) ==
    [y \in Coord |-> [x \in Coord |->
        IF y \in a.missing THEN NoPiece ELSE a.cells[y][x]]]

\* getRegularMoves(board, position, piece): board[newY][newX] is read for
\* every square on the board that the loops reach, and raises when the row
\* newY is lacking; the squares reached and not occupied are the moves
getRegularMovesOf(a) ==
    IF ~a.given \/ a.piece.color = "none" THEN Returned(<<>>)
    ELSE LET moves == getRegularMoves(RowsLeft(a), a.x, a.y, a.piece)
         IN  IF \E i \in 1 .. Len(moves) : moves[i][2] \in a.missing
             THEN Raised
             ELSE Returned(moves)

\* findSingleJumps(board, position, piece): every read is a safe read
findSingleJumpsOf(a) ==
    IF ~a.given \/ a.piece.color = "none" THEN Returned(<<>>)
    ELSE Returned(findSingleJumps(RowsLeft(a), a.x, a.y, a.piece))

\* getJumpMoves(board, position, piece): with a jump to explore, findPaths
\* reads nextBoard[currentPos[1]][currentPos[0]] on the copy, which raises for
\* a row off the board and finds no piece for a column off the board
getJumpMovesOf(a) ==
    IF ~a.given \/ a.piece.color = "none" THEN Returned(<<>>)
    ELSE IF findSingleJumps(RowsLeft(a), a.x, a.y, a.piece) = <<>>
    THEN Returned(<<>>)
    ELSE IF a.y \notin Coord THEN Raised
    ELSE IF a.x \notin Coord THEN Returned(<<>>)
    ELSE Returned(getJumpMoves(RowsLeft(a), a.x, a.y, a.piece))

\* getValidMoves(board, position, piece)
getValidMovesOf(a) ==
    IF ~a.given \/ a.piece.color = "none" THEN Returned(<<>>)
    ELSE LET must == hasMandatoryJumps(RowsLeft(a), a.piece.color)
             jumpMoves == getJumpMovesOf(a)
         IN  IF jumpMoves.raised THEN Raised
             ELSE IF must THEN jumpMoves
             ELSE IF Len(jumpMoves.moves) > 0 THEN jumpMoves
             ELSE getRegularMovesOf(a)

\* not a piece on a square of a complete board
InvalidArg(a) ==
    \/ ~a.given
    \/ a.piece.color = "none"
    \/ a.x \notin Coord
    \/ a.y \notin Coord
    \/ a.missing # {}

InvalidArgs ==
    {a \in [given : BOOLEAN, cells : ArgBoards,
            missing : {{}} \cup {{r} : r \in Coord},
            x : ArgCoord, y : ArgCoord, piece : ArgPieces] :
        /\ InvalidArg(a)
        /\ ~a.given => (a.missing = {} /\ a.cells = MandatoryJumpScene)}

InitRulesInput ==
    /\ \E a \in InvalidArgs : rulesOut = [args |-> a]
    /\ GameIs(NewGame(RowsLeft(rulesOut.args), "red", [red |-> <<>>, yellow |-> <<>>]))
    /\ humanPlayer = "red"
    /\ computerPlayer = "none"
    /\ isComputerThinking = FALSE
    /\ timers = 0
    /\ call = NoCall
    /\ before = NoBefore
    /\ ai = AiIdle
    /\ remote = NoRemote

\* the four move functions applied to the arguments
RulesInputCall ==
    /\ call.op = "none"
    /\ rulesOut' =
          [args |-> rulesOut.args,
           getRegularMoves |-> getRegularMovesOf(rulesOut.args),
           findSingleJumps |-> findSingleJumpsOf(rulesOut.args),
           getJumpMoves |-> getJumpMovesOf(rulesOut.args),
           getValidMoves |-> getValidMovesOf(rulesOut.args)]
    /\ call' = [op |-> "rulesInput", ret |-> TRUE, x |-> -1, y |-> -1]
    /\ UNCHANGED <<gameVars, uiVars, before, ai>>

NextRulesInput == RulesInputCall

SpecRulesInput == InitRulesInput /\ [][NextRulesInput]_vars



-----------------------------------------------------------------------------
(* The renderer in single-player mode: main.js.  Every handler runs to its *)
(* end before the next event is taken; the callback that makeComputerMove  *)
(* hands to setTimeout is an event of its own.                             *)

MaxTimers == 2

\* makeComputerMove() up to the setTimeout call: the flag and the number of
\* pending callbacks afterwards
makeComputerMove(g, computer, thinking, pending) ==
    IF g.gameState # "active" \/ g.currentPlayer # computer \/ thinking
    THEN [isComputerThinking |-> thinking, timers |-> pending]
    ELSE [isComputerThinking |-> TRUE, timers |-> pending + 1]

SetUi(u) ==
    /\ isComputerThinking' = u.isComputerThinking
    /\ timers' = u.timers
    /\ UNCHANGED <<humanPlayer, computerPlayer, remote>>

\* the first line of onMouseDown
ClickIgnored ==
    \/ gameState # "active"
    \/ currentPlayer # humanPlayer
    \/ isComputerThinking

Deselected(g) == [g EXCEPT !.selectedPiece = NoSel, !.validMoves = <<>>]

\* constructor and init() of ChessRenderer on a position of the game
InitUI ==
    /\ \E i \in 1 .. Len(StartPositions) :
          GameIs(NewGame(StartPositions[i].board, StartPositions[i].player,
                         StartPositions[i].captured))
    /\ humanPlayer = "red"
    /\ computerPlayer = "yellow"
    /\ isComputerThinking = (currentPlayer = "yellow" /\ gameState = "active")
    /\ timers = IF currentPlayer = "yellow" /\ gameState = "active" THEN 1 ELSE 0
    /\ call = NoCall
    /\ before = NoBefore
    /\ rulesOut = <<>>
    /\ ai = AiIdle
    /\ remote = NoRemote

\* onMouseDown on the piece drawn at (x, y)
ClickPiece(x, y) ==
    /\ Occupied(board, x, y)
    /\ IF ClickIgnored
       THEN /\ call' = Called("clickPiece", FALSE, x, y)
            /\ UNCHANGED gameVars
       ELSE IF board[y][x].color = humanPlayer
       THEN \E r \in {selectPiece(Game, x, y)} :
               /\ SetGame(r.g)
               /\ call' = Called("clickPiece", r.ret, x, y)
       ELSE /\ SetGame(Deselected(Game))
            /\ call' = Called("clickPiece", FALSE, x, y)
    /\ UNCHANGED <<uiVars, before, rulesOut, ai>>

\* onMouseDown on the square (x, y)
ClickSquare(x, y) ==
    /\ Len(moveHistory) < MaxHistory
    /\ IF ClickIgnored
       THEN /\ call' = Called("clickSquare", FALSE, x, y)
            /\ UNCHANGED <<gameVars, uiVars>>
       ELSE IF IsSet(selectedPiece)
       THEN \E r \in {movePiece(Game, x, y)} :
               /\ SetGame(r.g)
               /\ call' = Called("clickSquare", r.ret, x, y)
               /\ IF r.ret /\ ~(IsSet(r.g.multiJumpPiece)
                                /\ r.g.currentPlayer = humanPlayer)
                  THEN \E u \in {makeComputerMove(r.g, computerPlayer,
                                                  isComputerThinking, timers)} :
                          /\ u.timers <= MaxTimers
                          /\ SetUi(u)
                  ELSE UNCHANGED uiVars
       ELSE /\ SetGame(Deselected(Game))
            /\ call' = Called("clickSquare", FALSE, x, y)
            /\ UNCHANGED uiVars
    /\ UNCHANGED <<before, rulesOut, ai>>

\* onMouseDown beside the board
ClickNothing ==
    /\ IF ClickIgnored THEN UNCHANGED gameVars
       ELSE SetGame(Deselected(Game))
    /\ call' = Called("clickNothing", FALSE, -1, -1)
    /\ UNCHANGED <<uiVars, before, rulesOut, ai>>

\* click on the undo button
UndoClick ==
    /\ IF isComputerThinking
       THEN /\ call' = Called("undoClick", FALSE, -1, -1)
            /\ UNCHANGED gameVars
       ELSE \E r \in {undoMove(Game, isComputerThinking, humanPlayer)} :
               /\ SetGame(r.g)
               /\ call' = Called("undoClick", r.ret, -1, -1)
    /\ UNCHANGED <<uiVars, before, rulesOut, ai>>

\* click on the new-game button: startNewGame(false)
StartNewGame ==
    \E g \in {NewGame(createInitialBoard, "red", [red |-> <<>>, yellow |-> <<>>])} :
        /\ SetGame(g)
        /\ humanPlayer' = "red"
        /\ computerPlayer' = "yellow"
        /\ \E u \in {makeComputerMove(g, "yellow", FALSE, timers)} :
              /\ isComputerThinking' = u.isComputerThinking
              /\ timers' = u.timers
        /\ call' = Called("startNewGame", TRUE, -1, -1)
        /\ UNCHANGED <<before, rulesOut, ai, remote>>

\* the moves ai.makeMove() can settle on; <<>> stands for no move at all
BestMoves(g) ==
    Once(possibleMoves(g.board, g.currentPlayer),
         LAMBDA moves : IF Len(moves) = 0 THEN {<<>>}
                        ELSE {moves[k] : k \in 1 .. Len(moves)})

\* the callback of makeComputerMove, 50 ms after it was scheduled
TimerFires ==
    /\ timers > 0
    /\ Len(moveHistory) < MaxHistory
    /\ \E bestMoveOverall \in BestMoves(Game) :
       \E r \in {makeMove(Game, bestMoveOverall)} :
       \E g \in {IF r.ret THEN r.g ELSE updateGameState(r.g)} :
          /\ SetGame(g)
          /\ call' = Called("timer", r.ret, bestMoveOverall.toX, bestMoveOverall.toY)
          /\ IF r.ret /\ IsSet(g.multiJumpPiece)
                /\ g.currentPlayer = computerPlayer /\ g.gameState = "active"
             THEN SetUi(makeComputerMove(g, computerPlayer, FALSE, timers - 1))
             ELSE SetUi([isComputerThinking |-> FALSE, timers |-> timers - 1])
    /\ UNCHANGED <<before, rulesOut, ai>>

\* the renderer at the computer's turn, after the click that ended red's
TurnPositions == <<RivalCaptors, JumpToPromotion>>

InitTurn ==
    /\ \E i \in 1 .. Len(TurnPositions) :
          GameIs(NewGame(TurnPositions[i].board, TurnPositions[i].player,
                         TurnPositions[i].captured))
    /\ humanPlayer = "red"
    /\ computerPlayer = "yellow"
    /\ isComputerThinking = TRUE
    /\ timers = 1
    /\ call = NoCall
    /\ before = NoBefore
    /\ rulesOut = <<>>
    /\ ai = AiIdle
    /\ remote = NoRemote

NextUI ==
    \/ \E x \in Coord, y \in Coord : ClickPiece(x, y)
    \/ \E x \in Coord, y \in Coord : ClickSquare(x, y)
    \/ ClickNothing
    \/ UndoClick
    \/ StartNewGame
    \/ TimerFires

SpecUI == InitUI /\ [][NextUI]_vars

SpecTurn == InitTurn /\ [][NextUI]_vars

-----------------------------------------------------------------------------
(* ChessAI.makeMove step by step: chess-ai.js.  A board of the search is   *)
(* either the array game.board itself (isLive) or an array of its own      *)
(* (cells).  In cells, ref names the object a square holds: 0 for an       *)
(* object of the search, 1 + 8y + x for the object that game.board holds   *)
(* on (x, y).  Scores, the transposition table and the clock are not       *)
(* computed: a cut-off, the best move and the time limit may fall anywhere *)
(* the code allows them.                                                   *)

MaxTargetDepth == 2
MaxQuiescenceDepth == 1
MaxSearches == 1

LiveRef(x, y) == 1 + BoardSize * y + x

\* game.board with every object named
LiveCells(live) ==
    [y \in Coord |-> [x \in Coord |->
        IF live[y][x].color = "none" THEN NoPiece
        ELSE [live[y][x] EXCEPT !.ref = LiveRef(x, y)]]]

\* this.game.board passed as an argument
LiveBoard == [cells |-> EmptyBoard, isLive |-> TRUE]

Cells(live, wb) == IF wb.isLive THEN LiveCells(live) ELSE wb.cells

\* copyBoard that hands back its argument
copyBoard_SameBoard(live, wb) == wb

\* copyBoard(board): new rows, a new object for every piece
copyBoard(live, wb) == [cells |-> Plain(Cells(live, wb)), isLive |-> FALSE]

\* the writes of simulateMove on an 8x8 array
ApplyMove(b, move) ==
    IF ~Occupied(b, move.fromX, move.fromY) THEN b
    ELSE LET piece == b[move.fromY][move.fromX]
             b1 == IF move.isJump /\ isInBounds(move.captureX, move.captureY)
                      /\ Occupied(b, move.captureX, move.captureY)
                   THEN SetCell(b, move.captureX, move.captureY, NoPiece)
                   ELSE b
             b2 == SetCell(SetCell(b1, move.toX, move.toY, piece),
                           move.fromX, move.fromY, NoPiece)
         IN  IF ~piece.isKing /\ shouldPromote(piece.color, move.toY)
             THEN SetCell(b2, move.toX, move.toY, [piece EXCEPT !.isKing = TRUE])
             ELSE b2

\* simulateMove(board, move): the board argument and game.board afterwards;
\* piece.isKing = true reaches game.board when the object is one of its own
simulateMove(live, wb, move) ==
    IF wb.isLive
    THEN [wb |-> wb, live |-> ApplyMove(live, move)]
    ELSE LET piece == wb.cells[move.fromY][move.fromX]
             x == (piece.ref - 1) % BoardSize
             y == (piece.ref - 1) \div BoardSize
         IN  [wb |-> [wb EXCEPT !.cells = ApplyMove(wb.cells, move)],
              live |-> IF piece.color # "none" /\ piece.ref # 0
                          /\ ~piece.isKing /\ shouldPromote(piece.color, move.toY)
                       THEN SetCell(live, x, y, [live[y][x] EXCEPT !.isKing = TRUE])
                       ELSE live]

Frame(fn, wb, color, depth, moves) ==
    [fn |-> fn, board |-> wb, color |-> color, depth |-> depth,
     moves |-> moves, i |-> 0, searched |-> FALSE]

\* quiescenceSearch(board, ..., color, ..., qDepth) up to its loop
quiescenceSearch(live, wb, color, qDepth) ==
    Frame("quiescenceSearch", wb, color, qDepth,
          IF qDepth >= MaxQuiescenceDepth THEN <<>>
          ELSE Once(getAllPossibleMoves(Cells(live, wb), color, TRUE),
                    LAMBDA captureMoves : sortMoves(captureMoves)))

\* minimax(board, depth, ..., color, ...) up to its first searchMove
minimax(live, wb, depth, color) ==
    IF checkWinner(Cells(live, wb)) # "null"
    THEN Frame("minimax", wb, color, depth, <<>>)
    ELSE IF depth <= 0 THEN quiescenceSearch(live, wb, color, 0)
    ELSE Frame("minimax", wb, color, depth,
               possibleMoves(Cells(live, wb), color))

\* findBestMoveAtDepth(this.game.board, aiColor, depth) up to its first searchMove
findBestMoveAtDepth(live, aiColor, depth) ==
    Frame("findBestMoveAtDepth", LiveBoard, aiColor, depth,
          possibleMoves(live, aiColor))

\* searchMove that goes on with the same side after a jump into the king row
Continues_IgnorePromotion(before0, after, move) ==
    LET pieceAfterMove == after[move.toY][move.toX]
    IN  /\ move.isJump /\ pieceAfterMove.color # "none"
        /\ Len(findSingleJumps(after, move.toX, move.toY, pieceAfterMove)) > 0

\* after boardCopy = copyBoard(board) and simulateMove(boardCopy, move): does
\* the same side continue its jump
Continues(before0, after, move) ==
    LET pieceBeforeMove == before0[move.fromY][move.fromX]
        pieceAfterMove == after[move.toY][move.toX]
        promoted == /\ pieceAfterMove.color # "none"
                    /\ ~pieceBeforeMove.isKing
                    /\ shouldPromote(pieceAfterMove.color, move.toY)
    IN  /\ move.isJump /\ ~promoted /\ pieceAfterMove.color # "none"
        /\ Len(findSingleJumps(after, move.toX, move.toY, pieceAfterMove)) > 0

Top == ai.stack[Len(ai.stack)]

Push(f) == [ai EXCEPT !.stack = Append(@, f)]

searchVars == <<currentPlayer, capturedPieces, gameState, moveHistory,
                selectedPiece, validMoves, multiJumpPiece, mustJump,
                canOnlySelectJumpingPieces, uiVars, obsVars>>

\* the search is started in the middle of a game, with captures on offer or
\* with none
SearchPositions ==
    <<ChainToPromotion, KingChain, JumpToPromotion, ChainWithChoice, LastTwo,
      QuietEnding>>

InitSearch ==
    /\ \E i \in 1 .. Len(SearchPositions) :
          GameIs(NewGame(SearchPositions[i].board, SearchPositions[i].player,
                         SearchPositions[i].captured))
    /\ humanPlayer = "red"
    /\ computerPlayer = "yellow"
    /\ isComputerThinking = TRUE
    /\ timers = 0
    /\ call = NoCall
    /\ before = NoBefore
    /\ rulesOut = <<>>
    /\ ai = AiIdle
    /\ remote = NoRemote

\* makeMove() is entered: the first iteration of the deepening loop begins
MakeMoveStart ==
    /\ ai.phase = "idle"
    /\ ai.runs < MaxSearches
    /\ ai' = [phase |-> "search", depth |-> 1,
              stack |-> <<findBestMoveAtDepth(board, currentPlayer, 1)>>,
              best |-> <<>>, runs |-> ai.runs + 1, timedOut |-> FALSE,
              done |-> <<>>]
    /\ UNCHANGED <<board, searchVars>>

\* searchMove(board, move, ...) in findBestMoveAtDepth or minimax, down to
\* the entry of the minimax call it makes; after the first move, the move
\* searched last may be searched again with the full window
SearchMove ==
    /\ ai.phase = "search"
    /\ Top.fn \in {"findBestMoveAtDepth", "minimax"}
    /\ \E k \in {Top.i, Top.i + 1} :
          /\ k >= 1 /\ k <= Len(Top.moves)
          /\ k = Top.i => (Top.searched /\ k > 1)
          /\ \E move \in {Top.moves[k]} :
             \E boardCopy \in {copyBoard(board, Top.board)} :
             \E sim \in {simulateMove(board, boardCopy, move)} :
             \E same \in {Continues(Cells(board, Top.board),
                                    Cells(sim.live, sim.wb), move)} :
             \E child \in {IF same
                           THEN minimax(sim.live, sim.wb, Top.depth, Top.color)
                           ELSE minimax(sim.live, sim.wb, Top.depth - 1,
                                        Opponent(Top.color))} :
                 /\ board' = sim.live
                 /\ ai' = [ai EXCEPT
                              !.stack = Append(
                                  [@ EXCEPT ![Len(@)].i = k,
                                            ![Len(@)].searched = FALSE],
                                  child)]
    /\ UNCHANGED searchVars

\* one pass of the capture loop of quiescenceSearch, down to the entry of
\* the quiescenceSearch call it makes
QuiescenceCapture ==
    /\ ai.phase = "search"
    /\ Top.fn = "quiescenceSearch"
    /\ Top.i < Len(Top.moves)
    /\ \E move \in {Top.moves[Top.i + 1]} :
       \E boardCopy \in {copyBoard(board, Top.board)} :
       \E sim \in {simulateMove(board, boardCopy, move)} :
       \E same \in {Continues(Cells(board, Top.board),
                              Cells(sim.live, sim.wb), move)} :
       \E child \in {quiescenceSearch(sim.live, sim.wb,
                                      IF same THEN Top.color
                                      ELSE Opponent(Top.color),
                                      Top.depth + 1)} :
           /\ board' = sim.live
           /\ ai' = [ai EXCEPT
                        !.stack = Append(
                            [@ EXCEPT ![Len(@)].i = Top.i + 1,
                                      ![Len(@)].searched = FALSE],
                            child)]
    /\ UNCHANGED searchVars

\* minimax found a better score: tempBoard = copyBoard(board) and
\* simulateMove(tempBoard, move) for the hash of the move
Resimulate ==
    /\ ai.phase = "search"
    /\ Top.fn = "minimax"
    /\ Top.searched
    /\ \E tempBoard \in {copyBoard(board, Top.board)} :
       \E sim \in {simulateMove(board, tempBoard, Top.moves[Top.i])} :
           board' = sim.live
    /\ ai' = [ai EXCEPT !.stack[Len(ai.stack)].searched = FALSE]
    /\ UNCHANGED searchVars

\* minimax or quiescenceSearch returns: no move left, a cut-off, a hit in
\* the transposition table or a stand-pat cut
Return ==
    /\ ai.phase = "search"
    /\ Len(ai.stack) > 1
    /\ ai' = [ai EXCEPT
                 !.stack = [SubSeq(@, 1, Len(@) - 1)
                               EXCEPT ![Len(@) - 1].searched = TRUE]]
    /\ UNCHANGED <<board, searchVars>>

\* findBestMoveAtDepth returns with currentBestMove, after copyBoard and
\* simulateMove for its hash; makeMove keeps it and goes one ply deeper or
\* leaves the loop
DepthCompleted ==
    /\ ai.phase = "search"
    /\ Len(ai.stack) = 1
    /\ Top.i = Len(Top.moves)
    /\ IF Len(Top.moves) = 0
       THEN /\ ai' = [ai EXCEPT !.phase = "chosen", !.stack = <<>>]
            /\ UNCHANGED board
       ELSE \E k \in 1 .. Len(Top.moves), more \in BOOLEAN :
               \E currentBestMove \in {Top.moves[k]} :
               \E tempBoard \in {copyBoard(board, Top.board)} :
               \E sim \in {simulateMove(board, tempBoard, currentBestMove)} :
                   /\ board' = sim.live
                   /\ more => ai.depth < MaxTargetDepth
                   /\ ai' = IF more
                            THEN [ai EXCEPT
                                     !.depth = @ + 1,
                                     !.best = currentBestMove,
                                     !.done = Append(@, currentBestMove),
                                     !.stack = <<findBestMoveAtDepth(
                                                    sim.live, Top.color,
                                                    ai.depth + 1)>>]
                            ELSE [ai EXCEPT !.phase = "chosen",
                                            !.best = currentBestMove,
                                            !.done = Append(@, currentBestMove),
                                            !.stack = <<>>]
    /\ UNCHANGED searchVars

\* a time limit that leaves the loop with the move the interrupted iteration
\* was looking at
TimeLimit_KeepsPartial ==
    /\ ai.phase = "search"
    /\ \/ Top.i >= 1
       \/ Len(ai.stack) > 1
    /\ ai' = [ai EXCEPT !.phase = "chosen", !.stack = <<>>, !.timedOut = TRUE,
                        !.best = ai.stack[1].moves[ai.stack[1].i]]
    /\ UNCHANGED <<board, searchVars>>

\* "Time limit exceeded" is thrown somewhere in the iteration and caught in
\* makeMove: the iteration is dropped
TimeLimit ==
    /\ ai.phase = "search"
    /\ \/ Top.i >= 1
       \/ Len(ai.stack) > 1
    /\ ai' = [ai EXCEPT !.phase = "chosen", !.stack = <<>>, !.timedOut = TRUE]
    /\ UNCHANGED <<board, searchVars>>

\* the end of makeMove: the fallback when no depth was completed, then
\* selectPiece and movePiece on the game
Execute ==
    /\ ai.phase = "chosen"
    /\ \E fallbackMoves \in {IF ai.best # <<>> THEN <<>>
                              ELSE possibleMoves(board, currentPlayer)} :
       \E bestMoveOverall \in {IF ai.best # <<>> THEN ai.best
                               ELSE IF Len(fallbackMoves) > 0 THEN fallbackMoves[1]
                               ELSE <<>>} :
           \E r \in {makeMove(Game, bestMoveOverall)} :
              /\ SetGame(r.g)
              /\ call' = Called("makeMove", r.ret,
                                IF r.ret THEN bestMoveOverall.toX ELSE -1,
                                IF r.ret THEN bestMoveOverall.toY ELSE -1)
              /\ before' = IF r.ret THEN Shown(Game) ELSE NoBefore
    /\ ai' = [ai EXCEPT !.phase = "idle"]
    /\ UNCHANGED <<uiVars, rulesOut>>

NextSearch ==
    \/ MakeMoveStart
    \/ SearchMove
    \/ QuiescenceCapture
    \/ Resimulate
    \/ Return
    \/ DepthCompleted
    \/ TimeLimit
    \/ Execute

SpecSearch == InitSearch /\ [][NextSearch]_vars

-----------------------------------------------------------------------------
(* The scores of a search of depth 1 at difficulty 'easy': chess-ai.js.    *)
(* A score is a whole number of units of 1/320: every weighted term of     *)
(* evaluateBoard is a multiple of 1/80, and its last term,                 *)
(* (Math.random() - 0.5) * 0.01, lies between -1.6 and 1.6 units.  The     *)
(* transposition table is empty throughout: at depth 1 no minimax call     *)
(* reaches the code that stores an entry, and quiescenceSearch stores none. *)

ScoreUnit == 320
Infinity == 1073741824

\* values Math.random() can give the last term of evaluateBoard
Noise == {-1, 0, 1}

\* calls of evaluateBoard in one searchMove
MaxDraws == 2

\* runs of the search on one position
MaxRuns == 2

Draws == [1 .. MaxDraws -> Noise]

Max(a, b) == IF a >= b THEN a ELSE b
Min(a, b) == IF a <= b THEN a ELSE b

centerWeights ==
    <<<<0, 0, 0, 0, 0, 0, 0, 0>>,
      <<0, 1, 1, 1, 1, 1, 1, 0>>,
      <<0, 1, 2, 2, 2, 2, 1, 0>>,
      <<0, 1, 2, 3, 3, 2, 1, 0>>,
      <<0, 1, 2, 3, 3, 2, 1, 0>>,
      <<0, 1, 2, 2, 2, 2, 1, 0>>,
      <<0, 1, 1, 1, 1, 1, 1, 0>>,
      <<0, 0, 0, 0, 0, 0, 0, 0>>>>

\* this.weights of setDifficultyLevel('easy'), in units of 1/80
weights == [material |-> 80, position |-> 8, kingMobility |-> 16,
            promotionThreat |-> 16, defense |-> 8, attack |-> 16,
            backRowDefense |-> 4]

NoTally == [count |-> 0, material |-> 0, position |-> 0, kingMobility |-> 0,
            promotionThreat |-> 0, defense |-> 0, attack |-> 0,
            backRowPresence |-> 0]

\* what the piece on (x, y) adds to the sums of its colour in evaluateBoard
PieceTally(b, x, y) ==
    LET piece == b[y][x]
        promotionRow == IF piece.color = "yellow" THEN 7 ELSE 0
        backRow == IF piece.color = "yellow" THEN 0 ELSE 7
    IN  [count |-> 1,
         material |-> IF piece.isKing THEN pieceValues.king
                      ELSE pieceValues.regular,
         position |-> centerWeights[y + 1][x + 1] * 5,
         kingMobility |-> IF piece.isKing
                          THEN Min(Len(getRegularMoves(b, x, y, piece)), 8)
                          ELSE 0,
         promotionThreat |-> IF piece.isKing THEN 0
                             ELSE 7 - Abs(y - promotionRow),
         defense |-> IF piece.isKing THEN 5 ELSE 0,
         attack |-> Len(findSingleJumps(b, x, y, piece))
                        * (IF piece.isKing THEN 15 ELSE 10),
         backRowPresence |-> IF ~piece.isKing /\ y = backRow THEN 1 ELSE 0]

\* the squares, counted row by row, that hold a piece of one colour
SquaresOf(b, color) ==
    {i \in 0 .. BoardSize * BoardSize - 1 :
        b[i \div BoardSize][i % BoardSize].color = color}

\* the loop of evaluateBoard over the squares: the sums of the pieces on the
\* squares of S
RECURSIVE Tally(_, _)
Tally(b, S) ==
    IF S = {} THEN NoTally
    ELSE Once(Tally(b, S \ {CHOOSE i \in S : TRUE}),
              LAMBDA rest :
                  [f \in DOMAIN NoTally |->
                      rest[f] + PieceTally(b, (CHOOSE i \in S : TRUE) % BoardSize,
                                           (CHOOSE i \in S : TRUE) \div BoardSize)[f]])

\* the weighted sums and the endgame scaling of evaluateBoard, from the sums
\* of the perspective colour and of its opponent, in units of 1/80
Combined(ai0, opp) ==
    LET weighted ==
            weights.material * (ai0.material - opp.material)
            + weights.position * (ai0.position - opp.position)
            + weights.kingMobility * (ai0.kingMobility - opp.kingMobility)
            + weights.promotionThreat * (ai0.promotionThreat - opp.promotionThreat)
            + weights.defense * (ai0.defense - opp.defense)
            + weights.attack * (ai0.attack - opp.attack)
            + weights.backRowDefense * (ai0.backRowPresence - opp.backRowPresence)
        totalPieces == ai0.count + opp.count
        materialAdvantage == ai0.material - opp.material
        \* endgameFactor, in eighths
        endgameFactor == 8 + (10 - totalPieces)
        endgame ==
            IF totalPieces <= 8 /\ ai0.count > 0 /\ opp.count > 0
            THEN (weights.material \div 8) * materialAdvantage * endgameFactor
                 + (IF 2 * materialAdvantage > pieceValues.regular
                    THEN 5 * ai0.kingMobility * endgameFactor
                         - 2 * opp.kingMobility * endgameFactor
                    ELSE IF 2 * materialAdvantage < -pieceValues.regular
                    THEN 2 * ai0.kingMobility * endgameFactor
                         - 5 * opp.kingMobility * endgameFactor
                    ELSE 0)
            ELSE 0
    IN  weighted + endgame

\* evaluateBoard(board, 'yellow') before its random term, in units of 1/80
StaticScore(b) ==
    Once(Tally(b, SquaresOf(b, "yellow")),
         LAMBDA ai0 : Once(Tally(b, SquaresOf(b, "red")),
                           LAMBDA opp : Combined(ai0, opp)))

\* evaluateBoard(board, 'yellow') when Math.random() gives the term noise
evaluateBoard(b, noise) == (ScoreUnit \div 80) * StaticScore(b) + noise

\* quiescenceSearch and its capture loop: the score returned and the number
\* of calls of evaluateBoard so far; draws[k] is the random term of call k
RECURSIVE quiescenceValue(_, _, _, _, _, _, _, _)
RECURSIVE CaptureLoop(_, _, _, _, _, _, _, _, _, _, _)

\* bestScore and the window after the capture captureMoves[i] scored r.score
AfterCapture(b, captureMoves, i, alpha, beta, isMaximizing, color, qDepth, bestScore, draws, r) ==
    LET best1 == IF isMaximizing THEN Max(bestScore, r.score)
                 ELSE Min(bestScore, r.score)
        alpha1 == IF isMaximizing THEN Max(alpha, best1) ELSE alpha
        beta1 == IF isMaximizing THEN beta ELSE Min(beta, best1)
    IN  IF alpha1 >= beta1 THEN [score |-> best1, k |-> r.k]
        ELSE CaptureLoop(b, captureMoves, i + 1, alpha1, beta1,
                         isMaximizing, color, qDepth, best1, draws, r.k)

CaptureLoop(b, captureMoves, i, alpha, beta, isMaximizing, color, qDepth, bestScore, draws, k) ==
    IF i > Len(captureMoves) THEN [score |-> bestScore, k |-> k]
    ELSE Once(ApplyMove(b, captureMoves[i]),
              LAMBDA boardCopy :
                  Once(Continues(b, boardCopy, captureMoves[i]),
                       LAMBDA same :
                           Once(quiescenceValue(
                                    boardCopy, alpha, beta,
                                    IF same THEN isMaximizing ELSE ~isMaximizing,
                                    IF same THEN color ELSE Opponent(color),
                                    qDepth + 1, draws, k),
                                LAMBDA r :
                                    AfterCapture(b, captureMoves, i, alpha, beta,
                                                 isMaximizing, color, qDepth,
                                                 bestScore, draws, r))))

\* quiescenceSearch once standPatScore is known
AfterStandPat(b, alpha, beta, isMaximizing, color, qDepth, draws, k, standPatScore) ==
    LET alpha1 == IF isMaximizing THEN Max(alpha, standPatScore) ELSE alpha
        beta1 == IF isMaximizing THEN beta ELSE Min(beta, standPatScore)
        standPat == [score |-> standPatScore, k |-> k + 1]
    IN  IF alpha1 >= beta1 \/ qDepth >= MaxQuiescenceDepth THEN standPat
        ELSE Once(sortMoves(getAllPossibleMoves(b, color, TRUE)),
                  LAMBDA captureMoves :
                      IF Len(captureMoves) = 0 THEN standPat
                      ELSE CaptureLoop(b, captureMoves, 1, alpha1, beta1,
                                       isMaximizing, color, qDepth,
                                       standPatScore, draws, k + 1))

quiescenceValue(b, alpha, beta, isMaximizing, color, qDepth, draws, k) ==
    Once(evaluateBoard(b, draws[k + 1]),
         LAMBDA standPatScore :
             AfterStandPat(b, alpha, beta, isMaximizing, color, qDepth, draws,
                           k, standPatScore))

\* minimax(board, 0, ...): a decided game, or quiescenceSearch
minimaxValue(b, alpha, beta, isMaximizing, color, draws) ==
    LET winner == checkWinner(b)
    IN  IF winner = "yellow" THEN [score |-> 10000 * ScoreUnit, k |-> 0]
        ELSE IF winner = "red" THEN [score |-> -10000 * ScoreUnit, k |-> 0]
        ELSE IF winner = "draw" THEN [score |-> 0, k |-> 0]
        ELSE quiescenceValue(b, alpha, beta, isMaximizing, color, 0, draws, 0)

\* searchMove(board, move, 1, ...) for a move that ends the turn
searchMoveValue(b, move, alpha, beta, isMaximizing, color, draws) ==
    minimaxValue(ApplyMove(b, move), alpha, beta, ~isMaximizing,
                 Opponent(color), draws)

\* the move ends the turn of its side: no jump, or a jump with no jump after it
EndsTurn(b, move) == ~Continues(b, ApplyMove(b, move), move)

\* findBestMoveAtDepth(board, aiColor, 1) up to its first searchMove
RootFrame(b, aiColor) ==
    [fn |-> "findBestMoveAtDepth", color |-> aiColor,
     moves |-> possibleMoves(b, aiColor), i |-> 0,
     alpha |-> -Infinity, beta |-> Infinity,
     bestScore |-> IF aiColor = "yellow" THEN -Infinity ELSE Infinity,
     currentBestMove |-> <<>>]

\* bestScore, currentBestMove and the window after a move scored score
Improved(f, k, score) ==
    [f EXCEPT !.i = k, !.bestScore = score, !.currentBestMove = f.moves[k],
              !.alpha = IF f.color = "yellow" THEN Max(@, score) ELSE @,
              !.beta = IF f.color = "yellow" THEN @ ELSE Min(@, score)]

\* positions without a capture for the side to move, or with one jump only
EvalPositions == <<Opening, LoneMen, OfferedMan, QuietEnding, JumpToPromotion>>

\* two ChessAI objects, or one used twice, on a position of the game
InitEval ==
    /\ \E i \in 1 .. Len(EvalPositions) :
          GameIs(NewGame(EvalPositions[i].board, EvalPositions[i].player,
                         EvalPositions[i].captured))
    /\ humanPlayer = "red"
    /\ computerPlayer = "yellow"
    /\ isComputerThinking = TRUE
    /\ timers = 0
    /\ call = NoCall
    /\ before = NoBefore
    /\ rulesOut = <<>>
    /\ ai = AiIdle
    /\ remote = NoRemote

\* findBestMoveAtDepth(this.game.board, currentPlayer, 1) is called
EvalStart ==
    /\ ai.phase = "idle"
    /\ Len(rulesOut) < MaxRuns
    /\ ai' = [ai EXCEPT !.phase = "root", !.depth = 1, !.runs = @ + 1,
                        !.stack = <<RootFrame(board, currentPlayer)>>]
    /\ call' = Called("findBestMoveAtDepth", TRUE, -1, -1)
    /\ UNCHANGED <<gameVars, uiVars, before, rulesOut>>

\* what searchMove can return for a move of the root, over the values of
\* Math.random() in its calls of evaluateBoard
searchMoveScores(b, move, alpha, beta, isMaximizing, color) ==
    {searchMoveValue(b, move, alpha, beta, isMaximizing, color, draws).score :
        draws \in Draws}

\* the first move of the root, searched with the full window
RootFirstMove ==
    /\ ai.phase = "root"
    /\ Top.i = 0
    /\ Len(Top.moves) > 0
    /\ EndsTurn(board, Top.moves[1])
    /\ \E score \in searchMoveScores(board, Top.moves[1], Top.alpha, Top.beta,
                                      Top.color = "yellow", Top.color) :
          ai' = [ai EXCEPT !.stack = <<Improved(Top, 1, score)>>]
    /\ call' = Called("searchMove", TRUE, Top.moves[1].toX, Top.moves[1].toY)
    /\ UNCHANGED <<gameVars, uiVars, before, rulesOut>>

\* a later move of the root: a search with a null window and, when its score
\* falls inside the window, a second search with the full window
RootNextMove ==
    /\ ai.phase = "root"
    /\ Top.i >= 1 /\ Top.i < Len(Top.moves)
    /\ EndsTurn(board, Top.moves[Top.i + 1])
    /\ \E move \in {Top.moves[Top.i + 1]} :
       \E isMaximizing \in {Top.color = "yellow"} :
       \E nullWindowScore \in
              IF isMaximizing
              THEN searchMoveScores(board, move, Top.alpha, Top.alpha + 1,
                                    isMaximizing, Top.color)
              ELSE searchMoveScores(board, move, Top.beta - 1, Top.beta,
                                    isMaximizing, Top.color) :
       \E score \in
              IF nullWindowScore > Top.alpha /\ nullWindowScore < Top.beta
              THEN searchMoveScores(board, move, Top.alpha, Top.beta,
                                    isMaximizing, Top.color)
              ELSE {nullWindowScore} :
          /\ ai' = [ai EXCEPT !.stack =
                       <<IF (isMaximizing /\ score > Top.bestScore)
                            \/ (~isMaximizing /\ score < Top.bestScore)
                         THEN Improved(Top, Top.i + 1, score)
                         ELSE [Top EXCEPT !.i = Top.i + 1]>>]
          /\ call' = Called("searchMove", TRUE, move.toX, move.toY)
    /\ UNCHANGED <<gameVars, uiVars, before, rulesOut>>

\* findBestMoveAtDepth returns: bestMoveThisIteration = currentBestMove
RootReturns ==
    /\ ai.phase = "root"
    /\ Top.i = Len(Top.moves)
    /\ rulesOut' = Append(rulesOut, Top.currentBestMove)
    /\ ai' = [ai EXCEPT !.phase = "idle", !.stack = <<>>,
                        !.best = Top.currentBestMove]
    /\ call' = Called("findBestMoveAtDepth", FALSE, -1, -1)
    /\ UNCHANGED <<gameVars, uiVars, before>>

NextEval ==
    \/ EvalStart
    \/ RootFirstMove
    \/ RootNextMove
    \/ RootReturns

SpecEval == InitEval /\ [][NextEval]_vars

-----------------------------------------------------------------------------
(* The search with its scores, its hashes and its transposition table, at  *)
(* difficulty 'easy' and with the random term of evaluateBoard at 0.  A    *)
(* Zobrist key is named by its indices in zobristTable (piece index 4       *)
(* names zobristTurn) and a hash is the set of the keys XORed into it an    *)
(* odd number of times: hashes are equal exactly when they are equal for    *)
(* every choice of the random keys.                                         *)

\* this.targetDepth of setDifficultyLevel('easy')
targetDepth == 3

\* calls of makeMove in one run
MaxMakeMoves == 2

zobristTurn == <<4, 0>>

getPieceZobristIndex(piece) ==
    IF piece.color = "red" THEN (IF piece.isKing THEN 1 ELSE 0)
    ELSE (IF piece.isKing THEN 3 ELSE 2)

\* zobristTable[pieceIndex][y * 8 + x]
zobristKey(piece, x, y) == <<getPieceZobristIndex(piece), y * BoardSize + x>>

\* hash ^ key
Xor(hash, key) == IF key \in hash THEN hash \ {key} ELSE hash \cup {key}

computeZobristHash(b, colorToMove) ==
    LET pieces == {zobristKey(b[i \div BoardSize][i % BoardSize],
                              i % BoardSize, i \div BoardSize) :
                      i \in SquaresOf(b, "red") \cup SquaresOf(b, "yellow")}
    IN  IF colorToMove = "yellow" THEN Xor(pieces, zobristTurn) ELSE pieces

\* the hash simulateMove returns for a move made on the board b
simulateMoveHash(b, move, currentHash) ==
    IF ~Occupied(b, move.fromX, move.fromY) THEN currentHash
    ELSE LET piece == b[move.fromY][move.fromX]
             h1 == Xor(currentHash, zobristKey(piece, move.fromX, move.fromY))
             h2 == IF move.isJump /\ isInBounds(move.captureX, move.captureY)
                      /\ Occupied(b, move.captureX, move.captureY)
                   THEN Xor(h1, zobristKey(b[move.captureY][move.captureX],
                                           move.captureX, move.captureY))
                   ELSE h1
             after == IF ~piece.isKing /\ shouldPromote(piece.color, move.toY)
                      THEN [piece EXCEPT !.isKing = TRUE]
                      ELSE piece
         IN  Xor(h2, zobristKey(after, move.toX, move.toY))

\* transpositionTable.get(hash): the entry, or <<>>
TableGet(tt, hash) == IF hash \in DOMAIN tt THEN tt[hash] ELSE <<>>

TableSet(tt, hash, entry) ==
    [h \in DOMAIN tt \cup {hash} |-> IF h = hash THEN entry ELSE tt[h]]

cacheType(score, originalAlpha, originalBeta) ==
    IF score <= originalAlpha THEN 2
    ELSE IF score >= originalBeta THEN 1
    ELSE 0

storeTranspositionEntry(tt, hash, depth, score, originalAlpha, originalBeta, bestMoveHash) ==
    LET existing == TableGet(tt, hash)
    IN  IF existing = <<>> \/ depth >= existing.depth
        THEN TableSet(tt, hash,
                      [score |-> score, depth |-> depth,
                       type |-> cacheType(score, originalAlpha, originalBeta),
                       bestMoveHash |-> bestMoveHash])
        ELSE tt

\* a call of findBestMoveAtDepth, minimax or quiescenceSearch that has been
\* made and has not run yet; depth is qDepth for quiescenceSearch
Entered(fn, b, depth, alpha, beta, isMaximizing, color, isContinuation, hash) ==
    [fn |-> fn, board |-> b, depth |-> depth, alpha |-> alpha, beta |-> beta,
     isMaximizing |-> isMaximizing, color |-> color,
     isContinuation |-> isContinuation, hash |-> hash,
     originalAlpha |-> alpha, originalBeta |-> beta,
     state |-> "entered", via |-> "", cachedEntry |-> <<>>,
     moves |-> <<>>, i |-> 0, pass |-> "",
     bestScore |-> 0, currentBestMove |-> <<>>, bestMoveHashForTT |-> <<>>,
     score |-> 0]

\* the call returns score without searching a move
Returns(f, via, score) == [f EXCEPT !.state = "done", !.via = via, !.score = score]

\* the call goes on to search its moves, the first with the full window
Searches(f, moves, bestScore) ==
    [f EXCEPT !.state = "loop", !.via = "search", !.moves = moves, !.i = 1,
              !.pass = "full", !.bestScore = bestScore]

\* quiescenceSearch from standPatScore to its loop over the captures
quiescenceStandPat(f, standPatScore) ==
    LET alpha == IF f.isMaximizing THEN Max(f.alpha, standPatScore) ELSE f.alpha
        beta == IF f.isMaximizing THEN f.beta ELSE Min(f.beta, standPatScore)
        g == [f EXCEPT !.alpha = alpha, !.beta = beta]
    IN  IF alpha >= beta THEN Returns(g, "standPatCut", standPatScore)
        ELSE IF f.depth >= MaxQuiescenceDepth THEN Returns(g, "depthLimit", standPatScore)
        ELSE Once(sortMoves(getAllPossibleMoves(f.board, f.color, TRUE)),
                  LAMBDA captureMoves :
                      IF Len(captureMoves) = 0
                      THEN Returns(g, "standPat", standPatScore)
                      ELSE Searches(g, captureMoves, standPatScore))

\* quiescenceSearch up to its loop over the captures
quiescenceEnter(f, tt) ==
    LET cachedEntry == TableGet(tt, f.hash)
    IN  IF cachedEntry # <<>> /\ cachedEntry.depth >= -f.depth /\ cachedEntry.type = 0
        THEN Returns([f EXCEPT !.cachedEntry = cachedEntry], "table", cachedEntry.score)
        ELSE Once(evaluateBoard(f.board, 0),
                  LAMBDA standPatScore :
                      quiescenceStandPat([f EXCEPT !.cachedEntry = cachedEntry],
                                         standPatScore))

\* minimax that takes originalAlpha and originalBeta after the table lookup
minimaxSearch_OriginalsNarrowed(f, tt) ==
    LET cachedEntry == TableGet(tt, f.hash)
        usable == cachedEntry # <<>> /\ cachedEntry.depth >= f.depth
        alpha == IF usable /\ cachedEntry.type = 1
                 THEN Max(f.alpha, cachedEntry.score) ELSE f.alpha
        beta == IF usable /\ cachedEntry.type = 2
                THEN Min(f.beta, cachedEntry.score) ELSE f.beta
        g == [f EXCEPT !.alpha = alpha, !.beta = beta, !.cachedEntry = cachedEntry,
                       !.originalAlpha = alpha, !.originalBeta = beta]
    IN  IF usable /\ (cachedEntry.type = 0 \/ alpha >= beta)
        THEN Returns(g, "table", cachedEntry.score)
        ELSE Once(possibleMoves(f.board, f.color),
                  LAMBDA moves :
                      IF Len(moves) = 0
                      THEN Returns(g, "noMoves",
                                   IF f.isMaximizing
                                   THEN -(10000 + f.depth) * ScoreUnit
                                   ELSE (10000 + f.depth) * ScoreUnit)
                      ELSE Searches(g, moves,
                                    IF f.isMaximizing THEN -Infinity ELSE Infinity))

\* minimax that uses an entry of any depth
minimaxSearch_AnyDepth(f, tt) ==
    LET cachedEntry == TableGet(tt, f.hash)
        usable == cachedEntry # <<>>
        alpha == IF usable /\ cachedEntry.type = 1
                 THEN Max(f.alpha, cachedEntry.score) ELSE f.alpha
        beta == IF usable /\ cachedEntry.type = 2
                THEN Min(f.beta, cachedEntry.score) ELSE f.beta
        g == [f EXCEPT !.alpha = alpha, !.beta = beta, !.cachedEntry = cachedEntry]
    IN  IF usable /\ (cachedEntry.type = 0 \/ alpha >= beta)
        THEN Returns(g, "table", cachedEntry.score)
        ELSE Once(possibleMoves(f.board, f.color),
                  LAMBDA moves :
                      IF Len(moves) = 0
                      THEN Returns(g, "noMoves",
                                   IF f.isMaximizing
                                   THEN -(10000 + f.depth) * ScoreUnit
                                   ELSE (10000 + f.depth) * ScoreUnit)
                      ELSE Searches(g, moves,
                                    IF f.isMaximizing THEN -Infinity ELSE Infinity))

\* minimax with depth >= 1 and no winner, from the table lookup to its first
\* searchMove
minimaxSearch(f, tt) ==
    LET cachedEntry == TableGet(tt, f.hash)
        usable == cachedEntry # <<>> /\ cachedEntry.depth >= f.depth
        alpha == IF usable /\ cachedEntry.type = 1
                 THEN Max(f.alpha, cachedEntry.score) ELSE f.alpha
        beta == IF usable /\ cachedEntry.type = 2
                THEN Min(f.beta, cachedEntry.score) ELSE f.beta
        g == [f EXCEPT !.alpha = alpha, !.beta = beta, !.cachedEntry = cachedEntry]
    IN  IF usable /\ (cachedEntry.type = 0 \/ alpha >= beta)
        THEN Returns(g, "table", cachedEntry.score)
        ELSE Once(possibleMoves(f.board, f.color),
                  LAMBDA moves :
                      IF Len(moves) = 0
                      THEN Returns(g, "noMoves",
                                   IF f.isMaximizing
                                   THEN -(10000 + f.depth) * ScoreUnit
                                   ELSE (10000 + f.depth) * ScoreUnit)
                      ELSE Searches(g, moves,
                                    IF f.isMaximizing THEN -Infinity ELSE Infinity))

\* minimax up to its first searchMove
minimaxEnter(f, tt) ==
    LET winner == checkWinner(f.board)
    IN  IF winner = "yellow" THEN Returns(f, "winner", (10000 + f.depth) * ScoreUnit)
        ELSE IF winner = "red" THEN Returns(f, "winner", -(10000 + f.depth) * ScoreUnit)
        ELSE IF winner = "draw" THEN Returns(f, "winner", 0)
        ELSE IF f.depth <= 0
        THEN quiescenceEnter([f EXCEPT !.fn = "quiescenceSearch", !.depth = 0], tt)
        ELSE minimaxSearch(f, tt)

\* findBestMoveAtDepth that maximizes for the AI, whatever its colour
rootEnter_AiMaximizes(b, aiColor, depth, initialBoardHash) ==
    Once(possibleMoves(b, aiColor),
         LAMBDA moves :
             Once(Entered("findBestMoveAtDepth", b, depth, -Infinity, Infinity,
                          TRUE, aiColor, FALSE, initialBoardHash),
                  LAMBDA f :
                      IF Len(moves) = 0
                      THEN Returns(f, "noMoves",
                                   IF f.isMaximizing THEN -Infinity ELSE Infinity)
                      ELSE Searches(f, moves,
                                    IF f.isMaximizing THEN -Infinity ELSE Infinity)))

\* findBestMoveAtDepth up to its first searchMove
rootEnter(b, aiColor, depth, initialBoardHash) ==
    Once(possibleMoves(b, aiColor),
         LAMBDA moves :
             Once(Entered("findBestMoveAtDepth", b, depth, -Infinity, Infinity,
                          aiColor = "yellow", aiColor, FALSE, initialBoardHash),
                  LAMBDA f :
                      IF Len(moves) = 0
                      THEN Returns(f, "noMoves",
                                   IF f.isMaximizing THEN -Infinity ELSE Infinity)
                      ELSE Searches(f, moves,
                                    IF f.isMaximizing THEN -Infinity ELSE Infinity)))

\* searchMove of quiescenceSearch that passes qDepth on as it is
searchMoveCall_SameQDepth(f, alpha, beta, tt) ==
    LET move == f.moves[f.i]
        boardCopy == ApplyMove(f.board, move)
        nextHash == simulateMoveHash(f.board, move, f.hash)
        same == Continues(f.board, boardCopy, move)
        isMaximizing == IF same THEN f.isMaximizing ELSE ~f.isMaximizing
        color == IF same THEN f.color ELSE Opponent(f.color)
    IN  IF f.fn = "quiescenceSearch"
        THEN quiescenceEnter(Entered("quiescenceSearch", boardCopy, f.depth,
                                     alpha, beta, isMaximizing, color, same,
                                     nextHash), tt)
        ELSE minimaxEnter(Entered("minimax", boardCopy,
                                  IF same THEN f.depth ELSE f.depth - 1,
                                  alpha, beta, isMaximizing, color, same,
                                  nextHash), tt)

\* searchMove(board, move, depth, alpha, beta, ...) called by the node f for
\* its move f.moves[f.i]: the call of minimax or quiescenceSearch it makes
searchMoveCall(f, alpha, beta, tt) ==
    LET move == f.moves[f.i]
        boardCopy == ApplyMove(f.board, move)
        nextHash == simulateMoveHash(f.board, move, f.hash)
        same == Continues(f.board, boardCopy, move)
        isMaximizing == IF same THEN f.isMaximizing ELSE ~f.isMaximizing
        color == IF same THEN f.color ELSE Opponent(f.color)
    IN  IF f.fn = "quiescenceSearch"
        THEN quiescenceEnter(Entered("quiescenceSearch", boardCopy, f.depth + 1,
                                     alpha, beta, isMaximizing, color, same,
                                     nextHash), tt)
        ELSE minimaxEnter(Entered("minimax", boardCopy,
                                  IF same THEN f.depth ELSE f.depth - 1,
                                  alpha, beta, isMaximizing, color, same,
                                  nextHash), tt)

\* the node goes on to its next move, or returns bestScore
NextMove(f) ==
    IF f.i < Len(f.moves)
    THEN [f EXCEPT !.i = f.i + 1,
                   !.pass = IF f.fn = "quiescenceSearch" THEN "full" ELSE "null"]
    ELSE [f EXCEPT !.state = "done", !.score = f.bestScore]

Better(f, score) ==
    IF f.isMaximizing THEN score > f.bestScore ELSE score < f.bestScore

\* the root with the score of its move f.moves[f.i]
rootScored(f, score) ==
    IF f.i = 1 \/ Better(f, score)
    THEN NextMove([f EXCEPT !.bestScore = score,
                            !.currentBestMove = f.moves[f.i],
                            !.alpha = IF f.isMaximizing THEN Max(@, score) ELSE @,
                            !.beta = IF f.isMaximizing THEN @ ELSE Min(@, score)])
    ELSE NextMove(f)

\* a minimax node with the score of its move f.moves[f.i]
minimaxScored(f, score) ==
    LET g == IF Better(f, score)
             THEN [f EXCEPT !.bestScore = score,
                            !.bestMoveHashForTT =
                                simulateMoveHash(f.board, f.moves[f.i], f.hash)]
             ELSE f
        h == [g EXCEPT !.alpha = IF f.isMaximizing THEN Max(@, g.bestScore) ELSE @,
                       !.beta = IF f.isMaximizing THEN @ ELSE Min(@, g.bestScore)]
    IN  IF h.alpha >= h.beta THEN [h EXCEPT !.state = "done", !.score = h.bestScore]
        ELSE NextMove(h)

\* a quiescenceSearch node with the score of its capture f.moves[f.i]
quiescenceScored(f, score) ==
    LET best == IF f.isMaximizing THEN Max(f.bestScore, score)
                ELSE Min(f.bestScore, score)
        h == [f EXCEPT !.bestScore = best,
                       !.alpha = IF f.isMaximizing THEN Max(@, best) ELSE @,
                       !.beta = IF f.isMaximizing THEN @ ELSE Min(@, best)]
    IN  IF h.alpha >= h.beta THEN [h EXCEPT !.state = "done", !.score = h.bestScore]
        ELSE NextMove(h)

\* the node f after the searchMove of its move f.moves[f.i] returned score
Scored(f, score) ==
    IF f.fn = "quiescenceSearch" THEN quiescenceScored(f, score)
    ELSE IF f.pass = "null" /\ score > f.alpha /\ score < f.beta
    THEN [f EXCEPT !.pass = "full"]
    ELSE IF f.fn = "minimax" THEN minimaxScored(f, score)
    ELSE rootScored(f, score)

TreeIdle ==
    [phase |-> "idle", depth |-> 0, stack |-> <<>>, best |-> <<>>, runs |-> 0,
     timedOut |-> FALSE, done |-> <<>>, tt |-> <<>>]

\* the search is started in positions with kings and with men, with one
\* capture, a chain of captures or none
TreePositions ==
    <<KingStrike, RivalCaptors, LoneMen, ChainWithChoice, ChainToPromotion>>

InitTree ==
    /\ \E i \in 1 .. Len(TreePositions) :
          /\ GameIs(NewGame(TreePositions[i].board, TreePositions[i].player,
                            TreePositions[i].captured))
          /\ computerPlayer = TreePositions[i].player
          /\ humanPlayer = Opponent(TreePositions[i].player)
    /\ isComputerThinking = TRUE
    /\ timers = 0
    /\ call = NoCall
    /\ before = NoBefore
    /\ rulesOut = <<>>
    /\ ai = TreeIdle
    /\ remote = NoRemote

\* makeMove() without this.transpositionTable.clear()
TreeMakeMove_KeepTable ==
    /\ ai.phase = "idle"
    /\ gameState = "active"
    /\ currentPlayer = computerPlayer
    /\ ai.runs < MaxMakeMoves
    /\ ai' = [ai EXCEPT !.phase = "search", !.depth = 1, !.best = <<>>,
                        !.runs = @ + 1, !.timedOut = FALSE, !.done = <<>>,
                        !.stack = <<rootEnter(Plain(board), currentPlayer, 1,
                                              computeZobristHash(board, currentPlayer))>>]
    /\ UNCHANGED <<board, searchVars>>

\* makeMove() is entered: the table is cleared and the iteration of depth 1
\* begins
TreeMakeMove ==
    /\ ai.phase = "idle"
    /\ gameState = "active"
    /\ currentPlayer = computerPlayer
    /\ ai.runs < MaxMakeMoves
    /\ ai' = [ai EXCEPT !.phase = "search", !.depth = 1, !.best = <<>>,
                        !.runs = @ + 1, !.timedOut = FALSE, !.done = <<>>,
                        !.tt = <<>>,
                        !.stack = <<rootEnter(Plain(board), currentPlayer, 1,
                                              computeZobristHash(board, currentPlayer))>>]
    /\ UNCHANGED <<board, searchVars>>

\* the node on top calls searchMove for its move: with the full window for
\* the first move, for a capture of quiescenceSearch and for a second search,
\* else with a null window
TreeCall ==
    /\ ai.phase = "search"
    /\ Top.state = "loop"
    /\ \E alpha \in {IF Top.pass = "null" /\ ~Top.isMaximizing
                      THEN Top.beta - 1 ELSE Top.alpha} :
       \E beta \in {IF Top.pass = "null" /\ Top.isMaximizing
                     THEN Top.alpha + 1 ELSE Top.beta} :
          ai' = Push(searchMoveCall(Top, alpha, beta, ai.tt))
    /\ UNCHANGED <<board, searchVars>>

\* the call on top returns to the node that made it; a minimax node that
\* returns in its turn stores its entry in the table
TreeReturn ==
    /\ ai.phase = "search"
    /\ Len(ai.stack) > 1
    /\ Top.state = "done"
    /\ \E f \in {Scored(ai.stack[Len(ai.stack) - 1], Top.score)} :
          ai' = [ai EXCEPT
                    !.stack = SubSeq(@, 1, Len(@) - 2) \o <<f>>,
                    !.tt = IF f.fn = "minimax" /\ f.state = "done"
                           THEN storeTranspositionEntry(
                                    @, f.hash, f.depth, f.bestScore,
                                    f.originalAlpha, f.originalBeta,
                                    f.bestMoveHashForTT)
                           ELSE @]
    /\ UNCHANGED <<board, searchVars>>

\* findBestMoveAtDepth has returned to the deepening loop: the next depth,
\* or the end of the loop at targetDepth or when the time is up
TreeDepthCompleted ==
    /\ ai.phase = "search"
    /\ Len(ai.stack) = 1
    /\ Top.state = "done"
    /\ IF Top.currentBestMove = <<>>
       THEN ai' = [ai EXCEPT !.phase = "chosen", !.stack = <<>>]
       ELSE \E more \in BOOLEAN :
               /\ more => ai.depth < targetDepth
               /\ ~more => ai.depth >= 1
               /\ ai' = IF more
                        THEN [ai EXCEPT
                                 !.depth = @ + 1,
                                 !.best = Top.currentBestMove,
                                 !.done = Append(@, Top.currentBestMove),
                                 !.stack = <<rootEnter(Top.board, Top.color,
                                                       ai.depth + 1, Top.hash)>>]
                        ELSE [ai EXCEPT !.phase = "chosen",
                                        !.best = Top.currentBestMove,
                                        !.done = Append(@, Top.currentBestMove),
                                        !.timedOut = ai.depth < targetDepth,
                                        !.stack = <<>>]
    /\ UNCHANGED <<board, searchVars>>

\* the time is up when findBestMoveAtDepth or minimax looks at the clock,
\* before a move after its first: the exception ends the deepening loop
TreeTimeLimit ==
    /\ ai.phase = "search"
    /\ Top.state = "loop"
    /\ Top.fn # "quiescenceSearch"
    /\ Top.i >= 2 /\ Top.pass = "null"
    /\ ai' = [ai EXCEPT !.phase = "chosen", !.stack = <<>>, !.timedOut = TRUE]
    /\ UNCHANGED <<board, searchVars>>

NextTree ==
    \/ TreeMakeMove
    \/ TreeCall
    \/ TreeReturn
    \/ TreeDepthCompleted
    \/ TreeTimeLimit
    \/ Execute

SpecTree == InitTree /\ [][NextTree]_vars

\* TreeCall can be taken: the guard of the action, which sets ai' for every
\* node in its loop
CallDue == ai.phase = "search" /\ Top.state = "loop"

\* TreeReturn can be taken
ReturnDue == ai.phase = "search" /\ Len(ai.stack) > 1 /\ Top.state = "done"

\* The search is synchronous code: a node in its loop makes its next call
\* unless the time is up, and a call that is done returns to its caller.
\* This is weak fairness of TreeCall and of TreeReturn, WF_vars(TreeCall) /\
\* WF_vars(TreeReturn), written with the guards of the two actions in the
\* place of ENABLED.
SpecTreeFair ==
    /\ SpecTree
    /\ ([]<>(~CallDue) \/ []<><<TreeCall>>_vars)
    /\ ([]<>(~ReturnDue) \/ []<><<TreeReturn>>_vars)

-----------------------------------------------------------------------------
(* Properties of the rule functions, checked under SpecRules.              *)

PiecesOf(b, c) == {sq \in Coord \X Coord : b[sq[2]][sq[1]].color = c}

\* the piece on sq has a capture: an adjacent opponent with a free square
\* behind it for a man, the first piece on a diagonal for a king
CanCapture(b, sq) == Len(findSingleJumps(b, sq[1], sq[2], b[sq[2]][sq[1]])) > 0

\* a 4-tuple whose capture square holds a piece of the other colour
IsCaptureOf(b, c, m) ==
    /\ Len(m) = 4
    /\ b[m[4]][m[3]].color = Opponent(c)

\* C1: when hasMandatoryJumps(board, c) is true, getValidMoves of every
\* piece of colour c holds only jump moves, and is empty for a piece that has
\* no jump; in the scene of a red man at (2,5) beside a yellow man at (3,4),
\* hasMandatoryJumps(board, "red") is true and the man's moves are exactly
\* [[4,3,3,4]].
C1_MandatoryJumpsOnly ==
    call.op = "rules" =>
        /\ \A c \in Colors :
              rulesOut.hasMandatoryJumps[c] =>
                  \A sq \in PiecesOf(board, c) :
                      LET moves == rulesOut.getValidMoves[sq[2]][sq[1]]
                      IN  /\ \A i \in 1..Len(moves) :
                                IsCaptureOf(board, c, moves[i])
                          /\ ~CanCapture(board, sq) => moves = <<>>
        /\ board = MandatoryJumpScene =>
              /\ rulesOut.hasMandatoryJumps["red"]
              /\ rulesOut.getValidMoves[5][2] = << <<4, 3, 3, 4>> >>

\* a colour that must jump has one piece that can and one that cannot
C1_Witness ==
    /\ call.op = "rules"
    /\ board # MandatoryJumpScene
    /\ rulesOut.hasMandatoryJumps["red"]
    /\ \E p, q \in PiecesOf(board, "red") :
          /\ rulesOut.getValidMoves[p[2]][p[1]] # <<>>
          /\ rulesOut.getValidMoves[q[2]][q[1]] = <<>>
          /\ Len(getRegularMoves(board, q[1], q[2], board[q[2]][q[1]])) > 0

NoAvailableMove(b, c) ==
    \A sq \in PiecesOf(b, c) :
        /\ ~CanCapture(b, sq)
        /\ Len(getRegularMoves(b, sq[1], sq[2], b[sq[2]][sq[1]])) = 0

\* C6: checkWinner returns a decided result exactly when some colour has no
\* piece or no available move, and null otherwise.
C6_DecidedIff ==
    call.op = "rules" =>
        (rulesOut.checkWinner \in {"red", "yellow", "draw"}
            <=> \E c \in Colors : \/ PieceCount(board, c) = 0
                                  \/ NoAvailableMove(board, c))

\* decided although both colours still have pieces
C6_Witness ==
    /\ call.op = "rules"
    /\ rulesOut.checkWinner \in Colors
    /\ \A c \in Colors : PieceCount(board, c) > 0

\* C7: the decided value: the other colour wins when exactly one colour has
\* no piece, draw when neither has a piece, a colour with pieces and no move
\* loses to one that can move, draw when both have pieces and neither can
\* move.
C7_DecidedValue ==
    call.op = "rules" =>
        LET w == rulesOut.checkWinner
            n == [c \in Colors |-> PieceCount(board, c)]
            stuck == [c \in Colors |-> NoAvailableMove(board, c)]
        IN  /\ \A c \in Colors :
                  /\ n[c] = 0 /\ n[Opponent(c)] > 0 => w = Opponent(c)
                  /\ n[c] > 0 /\ n[Opponent(c)] > 0
                        /\ stuck[c] /\ ~stuck[Opponent(c)] => w = Opponent(c)
            /\ n["red"] = 0 /\ n["yellow"] = 0 => w = "draw"
            /\ n["red"] > 0 /\ n["yellow"] > 0
                  /\ stuck["red"] /\ stuck["yellow"] => w = "draw"

\* both colours have pieces, neither can move, and the result is a draw
C7_Witness ==
    /\ call.op = "rules"
    /\ rulesOut.checkWinner = "draw"
    /\ \A c \in Colors : PieceCount(board, c) > 0

Diagonals == {-1, 1} \X {-1, 1}

AsSet(seq) == {seq[i] : i \in 1 .. Len(seq)}

NoRepeats(seq) == Cardinality(AsSet(seq)) = Len(seq)

\* the squares at distances from .. to from (x, y) along d are on the board
\* and empty
FreeBetween(b, x, y, d, from, to) ==
    \A e \in from .. to :
        /\ isInBounds(x + d[1] * e, y + d[2] * e)
        /\ ~Occupied(b, x + d[1] * e, y + d[2] * e)

\* where the piece on sq may go without capturing, by the rule of the game
RegularTargets(b, sq) ==
    LET x == sq[1]
        y == sq[2]
        p == b[y][x]
        forward == IF p.color = "red" THEN -1 ELSE 1
    IN  IF p.isKing
        THEN {<<x + t[1][1] * t[2], y + t[1][2] * t[2]>> :
                 t \in {u \in Diagonals \X (1 .. BoardSize - 1) :
                           FreeBetween(b, x, y, u[1], 1, u[2])}}
        ELSE {<<x + dx, y + forward>> :
                 dx \in {d \in {-1, 1} : FreeBetween(b, x, y, <<d, forward>>, 1, 1)}}

\* C16: getRegularMoves gives a man exactly the free squares among its two
\* forward diagonal neighbours (red towards y-1, yellow towards y+1), never a
\* backward one, and a king exactly the free squares along the four
\* diagonals up to the first occupied square or the edge.
C16_RegularMoves ==
    call.op = "rules" =>
        \A c \in Colors : \A sq \in PiecesOf(board, c) :
            LET moves == rulesOut.getRegularMoves[sq[2]][sq[1]]
            IN  /\ AsSet(moves) = RegularTargets(board, sq)
                /\ NoRepeats(moves)
                /\ ~board[sq[2]][sq[1]].isKing =>
                      \A i \in 1 .. Len(moves) :
                          moves[i][2] = sq[2] + (IF c = "red" THEN -1 ELSE 1)

\* a king that slides up to a piece in its way, and a man with a free square
\* behind it
C16_Witness ==
    /\ call.op = "rules"
    /\ \E c \in Colors : \E sq \in PiecesOf(board, c) :
          /\ board[sq[2]][sq[1]].isKing
          /\ \E d \in Diagonals : \E k \in 2 .. BoardSize - 1 :
                /\ FreeBetween(board, sq[1], sq[2], d, 1, k - 1)
                /\ isInBounds(sq[1] + d[1] * k, sq[2] + d[2] * k)
                /\ Occupied(board, sq[1] + d[1] * k, sq[2] + d[2] * k)
          /\ Len(rulesOut.getRegularMoves[sq[2]][sq[1]]) > 1
    /\ \E c \in Colors : \E sq \in PiecesOf(board, c) :
          /\ ~board[sq[2]][sq[1]].isKing
          /\ \E dx \in {-1, 1} :
                FreeBetween(board, sq[1], sq[2],
                            <<dx, IF c = "red" THEN 1 ELSE -1>>, 1, 1)
          /\ Len(rulesOut.getRegularMoves[sq[2]][sq[1]]) > 0

\* the single captures of the piece on sq by the rule of the game: a man
\* takes an adjacent opponent with a free square behind it, a king the first
\* piece on a diagonal, landing on any free square behind it
JumpTargets(b, sq) ==
    LET x == sq[1]
        y == sq[2]
        p == b[y][x]
        opp == Opponent(p.color)
    IN  {<<x + t[1][1] * t[3], y + t[1][2] * t[3],
           x + t[1][1] * t[2], y + t[1][2] * t[2]>> :
            t \in {u \in Diagonals \X (1 .. BoardSize - 1) \X (2 .. BoardSize - 1) :
                      /\ u[2] < u[3]
                      /\ ~p.isKing => (u[2] = 1 /\ u[3] = 2)
                      /\ FreeBetween(b, x, y, u[1], 1, u[2] - 1)
                      /\ isInBounds(x + u[1][1] * u[2], y + u[1][2] * u[2])
                      /\ b[y + u[1][2] * u[2]][x + u[1][1] * u[2]].color = opp
                      /\ FreeBetween(b, x, y, u[1], u[2] + 1, u[3])}}

\* the pieces strictly between (x, y) and the landing square of jump m
JumpedOver(b, x, y, m) ==
    LET n == IF m[1] > x THEN m[1] - x ELSE x - m[1]
        dx == (m[1] - x) \div n
        dy == (m[2] - y) \div n
    IN  {e \in 1 .. n - 1 : Occupied(b, x + dx * e, y + dy * e)}

\* C17: findSingleJumps gives a man a jump in a direction exactly when the
\* adjacent square holds an opponent and the square behind it is on the board
\* and empty; it gives a king, per direction, one jump for every empty square
\* behind the first piece on the diagonal when that piece is an opponent
\* (king at (0,7), opponent at (3,4): landings (4,3), (5,2), (6,1), (7,0), all
\* capturing (3,4)); no jump passes an own piece or two pieces.
C17_SingleJumps ==
    call.op = "rules" =>
        /\ \A c \in Colors : \A sq \in PiecesOf(board, c) :
              LET jumps == rulesOut.findSingleJumps[sq[2]][sq[1]]
              IN  /\ AsSet(jumps) = JumpTargets(board, sq)
                  /\ NoRepeats(jumps)
                  /\ \A i \in 1 .. Len(jumps) :
                        /\ board[jumps[i][4]][jumps[i][3]].color = Opponent(c)
                        /\ Cardinality(JumpedOver(board, sq[1], sq[2], jumps[i])) = 1
        /\ board = KingLongJumpScene =>
              rulesOut.findSingleJumps[7][0] =
                  << <<4, 3, 3, 4>>, <<5, 2, 3, 4>>, <<6, 1, 3, 4>>, <<7, 0, 3, 4>> >>

\* beside the scene of the example: a king with several landing squares
\* behind one piece, and a man that captures backwards
C17_Witness ==
    /\ call.op = "rules"
    /\ board # KingLongJumpScene
    /\ \E c \in Colors : \E sq \in PiecesOf(board, c) :
          /\ board[sq[2]][sq[1]].isKing
          /\ Len(rulesOut.findSingleJumps[sq[2]][sq[1]]) > 1
    /\ \E sq \in PiecesOf(board, "red") :
          /\ ~board[sq[2]][sq[1]].isKing
          /\ \E i \in 1 .. Len(rulesOut.findSingleJumps[sq[2]][sq[1]]) :
                rulesOut.findSingleJumps[sq[2]][sq[1]][i][2] > sq[2]

\* C18: getJumpMoves returns every first hop of a jump sequence once, also
\* when several longer sequences begin with it, and returns the same set of
\* moves as findSingleJumps does for the same board, square and piece.
C18_FirstHops ==
    call.op = "rules" =>
        \A c \in Colors : \A sq \in PiecesOf(board, c) :
            /\ NoRepeats(rulesOut.getJumpMoves[sq[2]][sq[1]])
            /\ AsSet(rulesOut.getJumpMoves[sq[2]][sq[1]])
                  = AsSet(rulesOut.findSingleJumps[sq[2]][sq[1]])

\* a piece with more jump sequences than first hops
C18_Witness ==
    /\ call.op = "rules"
    /\ \E c \in Colors : \E sq \in PiecesOf(board, c) :
          Len(findPaths(board, sq[1], sq[2], board[sq[2]][sq[1]], <<>>))
              > Len(rulesOut.getJumpMoves[sq[2]][sq[1]])

-----------------------------------------------------------------------------
(* Properties of the rule functions on invalid arguments, checked under    *)
(* SpecRulesInput.                                                         *)

MoveFunctions == {"getRegularMoves", "findSingleJumps", "getJumpMoves", "getValidMoves"}

\* C20: for invalid input (no board, no piece, a coordinate outside 0..7, a
\* board with missing rows) getRegularMoves, findSingleJumps, getJumpMoves
\* and getValidMoves return an empty list and never raise.
C20_InvalidInputEmpty ==
    call.op = "rulesInput" =>
        \A f \in MoveFunctions :
            /\ ~rulesOut[f].raised
            /\ rulesOut[f].moves = <<>>

\* a call that raised, and a call that returned a move for a square off the
\* board
C20_Witness ==
    /\ call.op = "rulesInput"
    /\ \/ rulesOut.args.missing # {} /\ rulesOut.getRegularMoves.raised
       \/ /\ rulesOut.args.x \notin Coord
          /\ Len(rulesOut.findSingleJumps.moves) > 0


-----------------------------------------------------------------------------
(* Properties of the game controller, checked under Spec.  A step is       *)
(* described by the game before it (unprimed) and after it (primed).       *)

\* the step is a movePiece(call'.x, call'.y) that returned true; the piece
\* moved stood on the selected square
Moved == call'.op = "movePiece" /\ call'.ret

FromPiece == board[selectedPiece.y][selectedPiece.x]

ToPiece == board'[call'.y][call'.x]

\* the move taken is a jump
Jumped == Moved /\ Len(ChosenMove(validMoves, call'.x, call'.y)) = 4

\* the object moved was a man and is a king after the move
Promoted == ~selectedPiece.piece.isKing /\ ToPiece.isKing

FurtherJumps == findSingleJumps(board', call'.x, call'.y, ToPiece)

KingsOf(b, c) == {sq \in PiecesOf(b, c) : b[sq[2]][sq[1]].isKing}

C2_Step ==
    (Moved /\ \E sq \in PiecesOf(board, currentPlayer) : CanCapture(board, sq))
        => /\ PieceCount(board', Opponent(currentPlayer))
                 = PieceCount(board, Opponent(currentPlayer)) - 1
           /\ PieceCount(board', currentPlayer) = PieceCount(board, currentPlayer)

\* C2: in every reachable state where some piece of currentPlayer has a
\* jump, a movePiece that returns true removes exactly one opponent piece
\* from the board; a non-capturing move is never accepted.
C2_CaptureIsMandatory == [][C2_Step]_vars

\* a capture was made although another piece of the mover had a quiet move
C2_Witness ==
    /\ call.op = "movePiece" /\ call.ret /\ before.valid
    /\ PieceCount(board, currentPlayer)
          = PieceCount(before.board, currentPlayer) - 1
    /\ \E sq \in PiecesOf(before.board, before.currentPlayer) :
          /\ ~CanCapture(before.board, sq)
          /\ Len(getRegularMoves(before.board, sq[1], sq[2],
                                 before.board[sq[2]][sq[1]])) > 0

C3_Step ==
    /\ (Jumped /\ ~Promoted /\ FurtherJumps # <<>>)
          => /\ currentPlayer' = currentPlayer
             /\ multiJumpPiece'.x = call'.x
             /\ multiJumpPiece'.y = call'.y
    /\ (Jumped /\ currentPlayer' # currentPlayer)
          => (FurtherJumps = <<>> \/ Promoted)
    /\ (IsSet(multiJumpPiece) /\ call'.op = "selectPiece" /\ call'.ret)
          => /\ call'.x = multiJumpPiece.x
             /\ call'.y = multiJumpPiece.y
    /\ IsSet(multiJumpPiece')
          => LET x == multiJumpPiece'.x
                 y == multiJumpPiece'.y
                 jumps == findSingleJumps(board', x, y, board'[y][x])
             IN  \A i \in 1 .. Len(validMoves') :
                     /\ Len(validMoves'[i]) = 4
                     /\ \E j \in 1 .. Len(jumps) : jumps[j] = validMoves'[i]

\* C3: after a jump without promotion that leaves findSingleJumps from the
\* landing square non-empty, currentPlayer is unchanged and multiJumpPiece is
\* the landing square; while the chain lasts selectPiece succeeds only for
\* that square and validMoves holds only jumps of that piece; the turn passes
\* only when no further jump exists or the piece promoted.
C3_ChainContinues == [][C3_Step]_vars

\* the piece of the chain was selected again and has its next jump on offer
C3_Witness ==
    /\ call.op = "selectPiece" /\ call.ret
    /\ IsSet(multiJumpPiece)
    /\ Len(moveHistory) > 0
    /\ moveHistory[Len(moveHistory)].playerBefore = currentPlayer
    /\ validMoves # <<>>

C4_Step ==
    (Jumped /\ ~FromPiece.isKing /\ shouldPromote(FromPiece.color, call'.y))
        => /\ ToPiece.isKing
           /\ currentPlayer' = Opponent(currentPlayer)
           /\ ~IsSet(multiJumpPiece')

\* C4: whenever a man lands on its far rank by a jump in movePiece it becomes
\* a king and the turn ends at once: currentPlayer switches and
\* multiJumpPiece is null, even if the king has further jumps.
C4_PromotionEndsTurn == [][C4_Step]_vars

\* a piece has just landed on its far rank, where no king of its colour stood
\* before the move, and the same player is to continue the chain with it
C4_Witness ==
    /\ call.op = "movePiece" /\ call.ret /\ before.valid
    /\ KingsOf(before.board, currentPlayer) = {}
    /\ shouldPromote(currentPlayer, call.y)
    /\ board[call.y][call.x].isKing
    /\ currentPlayer = before.currentPlayer
    /\ multiJumpPiece.x = call.x /\ multiJumpPiece.y = call.y

C5_Step ==
    /\ Moved =>
          /\ ToPiece.color = FromPiece.color
          /\ FromPiece.isKing => ToPiece.isKing
          /\ (~FromPiece.isKing /\ ToPiece.isKing)
                => shouldPromote(FromPiece.color, call'.y)
          /\ \A sq \in Coord \X Coord :
                (sq # <<call'.x, call'.y>> /\ Occupied(board', sq[1], sq[2]))
                    => /\ board'[sq[2]][sq[1]].color = board[sq[2]][sq[1]].color
                       /\ board'[sq[2]][sq[1]].isKing = board[sq[2]][sq[1]].isKing
    /\ call'.op = "selectPiece" => Plain(board') = Plain(board)

\* C5: under selectPiece and movePiece a piece's rank changes only from man
\* to king and only when the man lands on the opponent's back rank; a king
\* stays a king.  (undoMove puts an earlier position back and is not
\* counted as a change of rank.)
C5_RankOnlyRises == [][C5_Step]_vars

\* a king stands where a move has just ended, off the back rank, and its
\* colour had no king before the move
C5_Witness ==
    /\ call.op = "movePiece" /\ call.ret /\ before.valid
    /\ KingsOf(before.board, before.currentPlayer) = {}
    /\ board[call.y][call.x].isKing
    /\ ~shouldPromote(before.currentPlayer, call.y)

-----------------------------------------------------------------------------
(* Properties of the renderer, checked under SpecUI.                       *)

HumanEvents == {"clickPiece", "clickSquare", "clickNothing", "undoClick"}

C10_Step ==
    /\ timers' <= 1
    /\ (timers > 0 /\ call'.op \in HumanEvents) => UNCHANGED gameVars

\* C10: under any interleaving of clicks, undo clicks, startNewGame and the
\* deferred callback, at most one search is scheduled at a time, and while
\* one is scheduled no click and no undo changes the game.
C10_OneSearchInFlight == [][C10_Step]_vars

\* two callbacks of makeComputerMove are pending at once
C10_Witness == timers = 2


-----------------------------------------------------------------------------
(* Properties of the search, checked under SpecSearch.                     *)

\* the board shares nothing with game.board: neither the array nor an object
Unshared(wb) ==
    /\ ~wb.isLive
    /\ \A y \in Coord, x \in Coord : wb.cells[y][x].ref = 0

C9_Step ==
    ai.phase \in {"idle", "search"} =>
        /\ board' = board
        /\ \A k \in 2 .. Len(ai'.stack) : Unshared(ai'.stack[k].board)

\* C9: from the start of makeMove until its final selectPiece and movePiece
\* game.board is never modified, and every board simulateMove has acted on
\* shares no piece object with it, whether the search completes, times out
\* or finds no move.
C9_SearchLeavesBoard == [][C9_Step]_vars

\* two plies deep in the search, a simulated move has crowned a man on a board
\* of the search
C9_Witness ==
    /\ ai.phase = "search"
    /\ Len(ai.stack) >= 3
    /\ Cardinality(KingsOf(Top.board.cells, "red") \cup KingsOf(Top.board.cells, "yellow"))
          > Cardinality(KingsOf(board, "red") \cup KingsOf(board, "yellow"))

\* the moves makeMove may play: the jumps of the colour, or its regular
\* moves when it has no jump
RootMoves(b, color) ==
    Once(getAllPossibleMoves(b, color, FALSE),
         LAMBDA moves : {moves[k] : k \in 1 .. Len(moves)})

\* this step is makeMove playing move m on the game
Executed(m) ==
    /\ call'.op = "makeMove" /\ call'.ret
    /\ call'.x = m.toX /\ call'.y = m.toY
    /\ Occupied(board, m.fromX, m.fromY)
    /\ ~Occupied(board', m.fromX, m.fromY)
    /\ board'[m.toY][m.toX].color = board[m.fromY][m.fromX].color

C11_Step ==
    /\ (ai'.timedOut /\ ~ai.timedOut) => ai'.phase = "chosen"
    /\ (ai.phase = "chosen" /\ ai.timedOut /\ ai'.phase = "idle") =>
          IF ai.depth > 1
          THEN /\ Len(ai.done) = ai.depth - 1
               /\ Executed(ai.done[ai.depth - 1])
          ELSE \E m \in RootMoves(board, currentPlayer) :
                  /\ Executed(m)
                  /\ \A n \in RootMoves(board, currentPlayer) :
                        scoreMoveHeuristic(board, n) <= scoreMoveHeuristic(board, m)

-----------------------------------------------------------------------------
(* The moves of the search against the moves of the controller, checked    *)
(* under SpecSearch.                                                       *)

\* from and to of the moves the search generates at its root
Generated(b, color) ==
    {<<m.fromX, m.fromY, m.toX, m.toY>> : m \in RootMoves(b, color)}

\* the (from, to) pairs for which selectPiece(from) and then movePiece(to)
\* both return true
Accepted(g) ==
    UNION {Once(selectPiece(g, sq[1], sq[2]),
                LAMBDA r :
                    IF ~r.ret THEN {}
                    ELSE {<<sq[1], sq[2], t[1], t[2]>> :
                            t \in {u \in Coord \X Coord :
                                     movePiece(r.g, u[1], u[2]).ret}}) :
           sq \in Coord \X Coord}

\* in this step a piece went from one square of a generated move to the
\* other
AppliesGenerated ==
    \E m \in Generated(board, currentPlayer) :
        /\ call'.x = m[3] /\ call'.y = m[4]
        /\ ~Occupied(board', m[1], m[2])
        /\ board'[m[4]][m[3]].color = currentPlayer

\* the step in which makeMove ends
C14_Step ==
    (ai.phase = "chosen" /\ ai'.phase = "idle"
        /\ gameState = "active" /\ ~IsSet(multiJumpPiece)) =>
        /\ Generated(board, currentPlayer) = Accepted(Game)
        /\ call'.ret <=> Generated(board, currentPlayer) # {}
        /\ call'.ret => AppliesGenerated

\* C14: with no multi-jump in progress and the game active, the moves the
\* search generates for the side to move (the jumps of getAllPossibleMoves,
\* else its regular moves) are the (from, to) pairs the controller accepts
\* through selectPiece and movePiece; makeMove returns true and applies one
\* of them when there is one, and returns false only when there is none.
C14_SearchMovesAreLegal == [][C14_Step]_vars

\* makeMove, called with no multi-jump in progress, has played a jump for a
\* side that also had a piece with regular moves only
C14_Witness ==
    /\ call.op = "makeMove" /\ call.ret /\ before.valid
    /\ ~IsSet(moveHistory[Len(moveHistory)].multiJumpBefore)
    /\ hasMandatoryJumps(before.board, before.currentPlayer)
    /\ \E x \in Coord, y \in Coord :
          /\ before.board[y][x].color = before.currentPlayer
          /\ getRegularMoves(before.board, x, y, before.board[y][x]) # <<>>
          /\ getJumpMoves(before.board, x, y, before.board[y][x]) = <<>>

-----------------------------------------------------------------------------
(* The computer's turn, checked under SpecTurn.                            *)

Terminal == {"red_win", "yellow_win", "draw"}

\* C12: whenever ai.makeMove() returns false inside the callback of
\* makeComputerMove, the game is in a terminal gameState afterwards; it is
\* not left active with the computer to move and no search scheduled.
C12_FailedMoveEndsGame ==
    (call.op = "timer" /\ ~call.ret) =>
        /\ gameState \in Terminal
        /\ ~(gameState = "active" /\ currentPlayer = computerPlayer /\ timers = 0)

\* makeMove has returned false and the game is active, the computer is to
\* move, no callback is pending and clicks on the board are ignored
C12_Witness ==
    /\ call.op = "timer" /\ ~call.ret
    /\ gameState = "active"
    /\ currentPlayer = computerPlayer
    /\ timers = 0 /\ ~isComputerThinking
    /\ ClickIgnored

C13_Step ==
    (call'.op = "timer" /\ gameState = "active" /\ IsSet(multiJumpPiece)
        /\ currentPlayer = computerPlayer) =>
        /\ call'.ret
        /\ ~Occupied(board', multiJumpPiece.x, multiJumpPiece.y)
        /\ PieceCount(board', Opponent(currentPlayer))
              = PieceCount(board, Opponent(currentPlayer)) - 1

\* C13: when makeMove is invoked while game.multiJumpPiece is set, the
\* computer continuing its own chain, the move it chooses starts from the
\* multiJumpPiece square and is a jump of that piece, so selectPiece and
\* movePiece accept it; it never picks a jump of another piece of its colour.
C13_ChainKeepsPiece == [][C13_Step]_vars

\* in RivalCaptors the king has taken (3,4) and stands on (2,3) with (1,4)
\* still to take; makeMove settled on the man's jump from (0,3) over (1,4)
\* and selectPiece refused it
C13_Witness ==
    /\ call.op = "timer" /\ ~call.ret
    /\ multiJumpPiece.x = 2 /\ multiJumpPiece.y = 3
    /\ board[3][2] = [color |-> "yellow", isKing |-> TRUE, ref |-> board[3][2].ref]
    /\ board[3][0].color = "yellow" /\ board[4][1].color = "red"
    /\ possibleMoves(board, currentPlayer)[1].fromX = 0
    /\ possibleMoves(board, currentPlayer)[1].fromY = 3

-----------------------------------------------------------------------------
(* Properties of the multiplayer controller, checked under SpecPeer.       *)

\* the flags say what hasMandatoryJumps says of the board and the side to move
FlagsCurrent(g) ==
    /\ g.mustJump = hasMandatoryJumps(g.board, g.currentPlayer)
    /\ g.canOnlySelectJumpingPieces = g.mustJump

\* C19: in every state between operations game.mustJump and
\* game.canOnlySelectJumpingPieces equal hasMandatoryJumps(board,
\* currentPlayer): after movePiece, after undoMove and after a board
\* replacement through the socket 'gameState' event.
C19_MustJumpCurrent == FlagsCurrent(Game)

\* a 'gameState' message has put a board on which the side to move has a
\* capture into a game whose mustJump is false
C19_Witness ==
    /\ call.op = "socketGameState"
    /\ ~mustJump
    /\ hasMandatoryJumps(board, currentPlayer)

\* the move movePiece(toX, toY) would take out of validMoves, <<>> if none
StaleChosen(toX, toY) ==
    IF IsSet(selectedPiece) /\ gameState = "active"
    THEN ChosenMove(validMoves, toX, toY) ELSE <<>>

\* the square the chosen jump captures on holds no piece, or is off the board
CaptureMissing(move) ==
    \/ ~isInBounds(move[3], move[4])
    \/ ~Occupied(board, move[3], move[4])

\* the piece selected is not the piece on the selected square
SourceLeft ==
    \/ ~Occupied(board, selectedPiece.x, selectedPiece.y)
    \/ board[selectedPiece.y][selectedPiece.x].color # selectedPiece.piece.color
    \/ board[selectedPiece.y][selectedPiece.x].isKing # selectedPiece.piece.isKing

StaleJump(toX, toY) ==
    /\ IsJumpMove(StaleChosen(toX, toY))
    /\ CaptureMissing(StaleChosen(toX, toY)) \/ SourceLeft

\* C21: movePiece checks a jump before it changes anything: when the chosen
\* move is a jump whose captured square is empty or off the board at the time
\* of the call, or the selected piece is no longer on its square, the move is
\* skipped and board, capturedPieces, currentPlayer and moveHistory stay as
\* they are.
C21_StaleJumpSkipped ==
    [][(call'.op = "movePiece" /\ StaleJump(call'.x, call'.y))
          => UNCHANGED <<board, capturedPieces, currentPlayer, moveHistory>>]_vars

\* movePiece has returned true for the jump (3,4) -> (1,2) of ChainToPromotion
\* on the opening board, where (3,4) and the captured square (2,3) are empty:
\* nothing was captured, the side that moved has one man more on the board
\* than before the move, and the man that stood on the target square is gone
C21_Witness ==
    /\ call.op = "movePiece" /\ call.ret
    /\ Len(moveHistory) > 0
    /\ LET last == moveHistory[Len(moveHistory)]
           mover == last.playerBefore
       IN  /\ board[call.y][call.x].color = mover
           /\ capturedPieces = last.capturedBefore
           /\ last.boardBefore[call.y][call.x].color = Opponent(mover)
           /\ PieceCount(board, mover) > PieceCount(last.boardBefore, mover)
           /\ PieceCount(board, Opponent(mover))
                  < PieceCount(last.boardBefore, Opponent(mover))

-----------------------------------------------------------------------------
(* Two runs of the search on one position, checked under SpecEval.         *)

\* the runs of findBestMoveAtDepth that have returned, as the moves chosen
Chosen == rulesOut

-----------------------------------------------------------------------------
(* Properties of the search with its table, checked under SpecTree.  The   *)
(* calls that are running are the frames of ai.stack, the caller below the *)
(* callee.                                                                 *)

Frames == {ai.stack[k] : k \in 1 .. Len(ai.stack)}

\* the entries of the table
Entries(tt) == {tt[h] : h \in DOMAIN tt}

\* the step is the entry of makeMove()
MakeMoveEntered == ai'.runs # ai.runs

\* C22: the transposition table is empty at the start of every makeMove()
\* computation, so no entry stored in one computation is read in a later one:
\* the step that enters makeMove leaves an empty table and a root call that
\* holds no entry.
C22_TableClearedPerMove ==
    [][MakeMoveEntered =>
          /\ ai'.tt = <<>>
          /\ \A k \in 1 .. Len(ai'.stack) : ai'.stack[k].cachedEntry = <<>>]_vars

\* the computer is about to start its second makeMove() of the game, for the
\* next jump of a chain, and the table still holds what the first stored
C22_Witness ==
    /\ ai.phase = "idle" /\ ai.runs = 1
    /\ gameState = "active" /\ currentPlayer = computerPlayer
    /\ Entries(ai.tt) # {}

\* the calls of minimax and quiescenceSearch that are running
Nodes == {f \in Frames : f.fn # "findBestMoveAtDepth"}

\* C23: at every node of minimax and quiescenceSearch currentHash equals
\* computeZobristHash(board, color) of the node's board and side to move, so
\* two nodes with the same placement and different sides to move never share
\* a hash or a table entry.
C23_HashOfNode ==
    \A f \in Nodes : f.hash = computeZobristHash(f.board, f.color)

\* a node reached by a move that ended the turn: its currentHash is the hash
\* of its placement with the other side to move
C23_Witness ==
    /\ ai.phase = "search" /\ Len(ai.stack) > 1
    /\ ~Top.isContinuation
    /\ Top.color # ai.stack[Len(ai.stack) - 1].color
    /\ Top.hash # computeZobristHash(Top.board, Top.color)
    /\ Top.hash = computeZobristHash(Top.board, Opponent(Top.color))

\* the step is a searchMove of findBestMoveAtDepth or minimax: the caller is
\* the top frame before the step, the minimax it calls the top frame after it
SearchMoveStep ==
    /\ ai.phase = "search" /\ ai'.phase = "search"
    /\ Len(ai'.stack) = Len(ai.stack) + 1
    /\ Top.fn # "quiescenceSearch"

Callee == ai'.stack[Len(ai'.stack)]

\* the move simulated by the step, and the piece that made it before and after
Simulated == Top.moves[Top.i]

MovedBefore == Top.board[Simulated.fromY][Simulated.fromX]

MovedAfter == Callee.board[Simulated.toY][Simulated.toX]

\* the move was a jump, the piece did not promote, and it has a jump from the
\* square it landed on
JumpGoesOn ==
    /\ Simulated.isJump
    /\ MovedAfter.isKing = MovedBefore.isKing
    /\ Len(findSingleJumps(Callee.board, Simulated.toX, Simulated.toY,
                           MovedAfter)) > 0

\* C24: when the simulated move is a jump, the piece did not promote and
\* findSingleJumps from the landing square is not empty, searchMove calls
\* minimax with the same depth, colour and isMaximizing; in every other case
\* with depth - 1, the opposite colour and the negated isMaximizing.
C24_ContinuationKeepsDepth ==
    [][SearchMoveStep =>
          IF JumpGoesOn
          THEN /\ Callee.depth = Top.depth
               /\ Callee.color = Top.color
               /\ Callee.isMaximizing = Top.isMaximizing
          ELSE /\ Callee.depth = Top.depth - 1
               /\ Callee.color = Opponent(Top.color)
               /\ Callee.isMaximizing = ~Top.isMaximizing]_vars

\* minimax was called by a searchMove of minimax for a man that jumped into
\* the king row, was promoted, and has a further jump as a king: the side to
\* move changed and the depth is one less than the caller's
C24_PromotionEndsTurn ==
    /\ ai.phase = "search" /\ Len(ai.stack) > 1
    /\ LET caller == ai.stack[Len(ai.stack) - 1]
           move == caller.moves[caller.i]
       IN  /\ caller.fn # "quiescenceSearch"
           /\ move.isJump
           /\ ~caller.board[move.fromY][move.fromX].isKing
           /\ Top.board[move.toY][move.toX].isKing
           /\ Len(findSingleJumps(Top.board, move.toX, move.toY,
                                  Top.board[move.toY][move.toX])) > 0
           /\ Top.color = Opponent(caller.color)
           /\ Top.depth = caller.depth - 1

\* minimax was called by a searchMove for a jump that goes on: same side, same
\* depth
C24_Witness ==
    /\ ai.phase = "search" /\ Len(ai.stack) > 1
    /\ Top.fn = "minimax" /\ Top.isContinuation
    /\ Top.color = ai.stack[Len(ai.stack) - 1].color
    /\ Top.depth = ai.stack[Len(ai.stack) - 1].depth

\* from and to of the moves a node searches
Expanded(f) ==
    {<<f.moves[k].fromX, f.moves[k].fromY, f.moves[k].toX, f.moves[k].toY>> :
        k \in 1 .. Len(f.moves)}

\* from and to of the jumps of the piece on (x, y), which are the validMoves
\* of the game after that piece has jumped to (x, y) and can go on
FurtherJumpsOf(b, x, y) ==
    LET jumps == findSingleJumps(b, x, y, b[y][x])
    IN  {<<x, y, jumps[k][1], jumps[k][2]>> : k \in 1 .. Len(jumps)}

\* C25: in a node reached as a multi-jump continuation (minimax or
\* quiescenceSearch called for the same side after a jump) the moves expanded
\* are exactly the further jumps of the piece that has just jumped, the moves
\* the game controller allows in that state; jumps of other pieces of that
\* colour are not expanded.
C25_ContinuationMoves ==
    \A k \in 2 .. Len(ai.stack) :
        LET f == ai.stack[k]
            hop == ai.stack[k - 1].moves[ai.stack[k - 1].i]
        IN  (f.isContinuation /\ f.via = "search")
               => Expanded(f) = FurtherJumpsOf(f.board, hop.toX, hop.toY)

\* a continuation node is searching a jump of a piece that is not the piece
\* that has just jumped
C25_Witness ==
    /\ ai.phase = "search" /\ Len(ai.stack) > 1
    /\ Top.isContinuation /\ Top.state = "loop"
    /\ LET hop == ai.stack[Len(ai.stack) - 1].moves[ai.stack[Len(ai.stack) - 1].i]
           move == Top.moves[Top.i]
       IN  /\ move.isJump
           /\ <<move.fromX, move.fromY>> # <<hop.toX, hop.toY>>
           /\ Top.board[move.fromY][move.fromX].color = Top.color

\* Depth-limited minimax without window, null-window search or table, over
\* the moves, the continuation rule and the evaluation of the search.
Highest(S) == CHOOSE v \in S : \A w \in S : w <= v

Lowest(S) == CHOOSE v \in S : \A w \in S : v <= w

BestOf(isMaximizing, S) == IF isMaximizing THEN Highest(S) ELSE Lowest(S)

\* the moves getAllPossibleMoves(b, color, !isJump ? false : true) collects in
\* one pass over the board, as a set
MovesFound(b, color, isJump) ==
    UNION {UNION {{MovesOfPiece(b, sq[1], sq[2], raw, isJump)[k] :
                      k \in 1 .. Len(raw)} :
                     raw \in {IF isJump
                              THEN getJumpMoves(b, sq[1], sq[2], b[sq[2]][sq[1]])
                              ELSE getRegularMoves(b, sq[1], sq[2], b[sq[2]][sq[1]])}} :
              sq \in {t \in Coord \X Coord : b[t[2]][t[1]].color = color}}

\* the moves of a node: the jumps if there are any, else the regular moves
PlainMoves(b, color) ==
    UNION {IF jumps # {} THEN jumps ELSE MovesFound(b, color, FALSE) :
              jumps \in {MovesFound(b, color, TRUE)}}

RECURSIVE PlainQuiescence(_, _, _, _)
\* the value of a node of depth 0: the stand-pat score against the values of
\* the captures, down to MaxQuiescenceDepth captures
PlainQuiescence(b, isMaximizing, color, qDepth) ==
    IF qDepth >= MaxQuiescenceDepth THEN evaluateBoard(b, 0)
    ELSE BestOf(isMaximizing,
                {evaluateBoard(b, 0)} \cup
                UNION {{IF Continues(b, boardCopy, move)
                        THEN PlainQuiescence(boardCopy, isMaximizing, color,
                                             qDepth + 1)
                        ELSE PlainQuiescence(boardCopy, ~isMaximizing,
                                             Opponent(color), qDepth + 1) :
                           boardCopy \in {ApplyMove(b, move)}} :
                          move \in MovesFound(b, color, TRUE)})

RECURSIVE PlainMinimax(_, _, _, _)
\* the value of board b with color to move and depth moves to go
PlainMinimax(b, depth, isMaximizing, color) ==
    IF checkWinner(b) = "yellow" THEN (10000 + depth) * ScoreUnit
    ELSE IF checkWinner(b) = "red" THEN -(10000 + depth) * ScoreUnit
    ELSE IF checkWinner(b) = "draw" THEN 0
    ELSE IF depth <= 0 THEN PlainQuiescence(b, isMaximizing, color, 0)
    ELSE BestOf(isMaximizing,
                UNION {IF moves = {}
                       THEN {IF isMaximizing THEN -(10000 + depth) * ScoreUnit
                             ELSE (10000 + depth) * ScoreUnit}
                       ELSE UNION {{IF Continues(b, boardCopy, move)
                                    THEN PlainMinimax(boardCopy, depth,
                                                      isMaximizing, color)
                                    ELSE PlainMinimax(boardCopy, depth - 1,
                                                      ~isMaximizing,
                                                      Opponent(color)) :
                                       boardCopy \in {ApplyMove(b, move)}} :
                                      move \in moves} :
                          moves \in {PlainMoves(b, color)}})

\* the value of the move for the side that makes it on board b
PlainMove(b, move, depth, isMaximizing, color) ==
    IF Continues(b, ApplyMove(b, move), move)
    THEN PlainMinimax(ApplyMove(b, move), depth, isMaximizing, color)
    ELSE PlainMinimax(ApplyMove(b, move), depth - 1, ~isMaximizing, Opponent(color))

\* findBestMoveAtDepth has searched all its moves and returns
RootDone ==
    /\ ai.phase = "search" /\ Len(ai.stack) = 1
    /\ Top.state = "done" /\ Top.currentBestMove # <<>>

\* C26: with no timeout and the random term of the evaluation at 0, the score
\* findBestMoveAtDepth computes (alpha-beta, null windows with re-search,
\* transposition table) is the value of plain depth-limited minimax over the
\* same moves, the same continuation rule and the same leaf values, and the
\* move it chooses has that value.
C26_ScoreIsMinimax ==
    RootDone =>
        /\ Top.score = PlainMinimax(Top.board, Top.depth, Top.isMaximizing, Top.color)
        /\ Top.score = PlainMove(Top.board, Top.currentBestMove, Top.depth,
                                 Top.isMaximizing, Top.color)

\* findBestMoveAtDepth returns at depth 3 with a score that is better for the
\* side to move than the minimax value of the position
C26_Witness ==
    /\ RootDone
    /\ Top.depth = targetDepth
    /\ IF Top.isMaximizing
       THEN Top.score > PlainMinimax(Top.board, Top.depth, TRUE, Top.color)
       ELSE Top.score < PlainMinimax(Top.board, Top.depth, FALSE, Top.color)

\* the step is a return to a minimax node that completes it and lets it
\* store: the node is the top frame after the step
StoreStep ==
    /\ ai.phase = "search" /\ ai'.phase = "search"
    /\ Len(ai'.stack) = Len(ai.stack) - 1
    /\ Callee.fn = "minimax" /\ Callee.state = "done"

\* the window the caller passes to the searchMove that is running
PassedAlpha(caller) ==
    IF caller.pass = "null" /\ ~caller.isMaximizing THEN caller.beta - 1
    ELSE caller.alpha

PassedBeta(caller) ==
    IF caller.pass = "null" /\ caller.isMaximizing THEN caller.alpha + 1
    ELSE caller.beta

\* the window the node on top after the step was entered with
EntryAlpha == PassedAlpha(ai'.stack[Len(ai'.stack) - 1])

EntryBeta == PassedBeta(ai'.stack[Len(ai'.stack) - 1])

\* the table takes the entry of the step: there was none for the hash, or
\* none of greater depth
EntryTaken ==
    \/ Callee.hash \notin DOMAIN ai.tt
    \/ Callee.depth >= ai.tt[Callee.hash].depth

\* C27: every entry stored by minimax has type 2 (upper bound) iff the node's
\* final score is <= the alpha the node was entered with, type 1 (lower
\* bound) iff it is >= the beta it was entered with, and type 0 (exact)
\* otherwise; alpha and beta are the values before a table hit narrows them.
C27_BoundType ==
    [][(StoreStep /\ EntryTaken) =>
          /\ Callee.hash \in DOMAIN ai'.tt
          /\ ai'.tt[Callee.hash].score = Callee.score
          /\ (ai'.tt[Callee.hash].type = 2) = (Callee.score <= EntryAlpha)
          /\ (ai'.tt[Callee.hash].type = 1) = (Callee.score >= EntryBeta)
          /\ (ai'.tt[Callee.hash].type = 0)
                = (Callee.score > EntryAlpha /\ Callee.score < EntryBeta)]_vars

\* a minimax node whose window a table hit has narrowed has searched its
\* moves and stored its entry with the type of the window it was entered with
C27_Witness ==
    /\ ai.phase = "search" /\ Len(ai.stack) > 1
    /\ Top.fn = "minimax" /\ Top.state = "done" /\ Top.via = "search"
    /\ <<Top.alpha, Top.beta>> # <<Top.originalAlpha, Top.originalBeta>>
    /\ Top.cachedEntry # <<>>
    /\ Top.cachedEntry.depth >= Top.depth
    /\ Top.hash \in DOMAIN ai.tt
    /\ ai.tt[Top.hash].score = Top.score
    /\ ai.tt[Top.hash].type
          = cacheType(Top.score, PassedAlpha(ai.stack[Len(ai.stack) - 1]),
                      PassedBeta(ai.stack[Len(ai.stack) - 1]))

\* the step does not enter makeMove
SameMakeMove == ai'.runs = ai.runs

\* the step is a searchMove whose minimax returned the score of an entry or
\* went on with a window narrowed by one
EntryUsed ==
    /\ SearchMoveStep
    /\ Callee.fn = "minimax"
    /\ \/ Callee.via = "table"
       \/ Callee.alpha # PassedAlpha(Top)
       \/ Callee.beta # PassedBeta(Top)

\* C28: within one makeMove the depth the table records for a hash never
\* decreases: a store with a smaller depth than the existing entry's leaves
\* the entry unchanged; and minimax returns from an entry or narrows its
\* window by one only when the entry's depth is >= the node's remaining depth.
C28_DepthPreferred ==
    [][/\ SameMakeMove =>
             \A h \in DOMAIN ai.tt :
                 /\ h \in DOMAIN ai'.tt
                 /\ ai'.tt[h].depth >= ai.tt[h].depth
       /\ (StoreStep /\ ~EntryTaken) => ai'.tt = ai.tt
       /\ \A h \in DOMAIN ai.tt : \A depth \in 0 .. ai.tt[h].depth - 1 :
              storeTranspositionEntry(ai.tt, h, depth, 0, -1, 1, <<>>) = ai.tt
       /\ EntryUsed =>
             /\ Callee.hash \in DOMAIN ai.tt
             /\ ai.tt[Callee.hash].depth >= Callee.depth]_vars

\* a minimax node found an entry of smaller depth than its own, left it
\* unused, searched its moves and replaced it by its own
C28_Witness ==
    /\ ai.phase = "search" /\ Len(ai.stack) > 1
    /\ Top.fn = "minimax" /\ Top.state = "done" /\ Top.via = "search"
    /\ Top.cachedEntry # <<>>
    /\ Top.cachedEntry.depth < Top.depth
    /\ <<Top.originalAlpha, Top.originalBeta>>
          = <<PassedAlpha(ai.stack[Len(ai.stack) - 1]),
              PassedBeta(ai.stack[Len(ai.stack) - 1])>>
    /\ ai.tt[Top.hash].depth = Top.depth

\* C29: at every node of findBestMoveAtDepth, minimax and quiescenceSearch
\* isMaximizing is true iff the colour to move is yellow, whichever colour the
\* AI plays, and every score is expressed from yellow's perspective: a win of
\* yellow is positive and a win of red negative, a side without moves has
\* lost, and a static score is evaluateBoard(board, 'yellow').
C29_YellowMaximizes ==
    \A f \in Frames :
        /\ f.isMaximizing = (f.color = "yellow")
        /\ f.via = "winner" =>
              /\ checkWinner(f.board) = "yellow" => f.score > 0
              /\ checkWinner(f.board) = "red" => f.score < 0
              /\ checkWinner(f.board) = "draw" => f.score = 0
        /\ f.via = "noMoves" =>
              /\ f.color = "yellow" => f.score < 0
              /\ f.color = "red" => f.score > 0
        /\ f.via \in {"standPat", "depthLimit", "standPatCut"} =>
              f.score = evaluateBoard(f.board, 0)

\* the AI plays red: a node with red to move minimizes, under a root that
\* minimizes, and returns as its static score a negative number for a board
\* on which red has more pieces than yellow
C29_Witness ==
    /\ ai.phase = "search" /\ Len(ai.stack) > 1
    /\ computerPlayer = "red"
    /\ ~ai.stack[1].isMaximizing
    /\ Top.color = "red" /\ ~Top.isMaximizing
    /\ Top.state = "done" /\ Top.via = "standPat"
    /\ PieceCount(Top.board, "red") > PieceCount(Top.board, "yellow")
    /\ Top.score < 0

\* the calls of quiescenceSearch that are running; depth is their qDepth
QuiescenceNodes == {f \in Frames : f.fn = "quiescenceSearch"}

\* the side to move of the node has no capture
NoCapture(f) == Len(getAllPossibleMoves(f.board, f.color, TRUE)) = 0

\* C30: quiescenceSearch simulates only jumps, never expands a node with
\* qDepth >= MAX_QUIESCENCE_DEPTH, and returns exactly the stand-pat
\* evaluation when the side to move has no capture.
C30_QuiescenceCapturesOnly ==
    \A f \in QuiescenceNodes :
        /\ f.via = "search" =>
              /\ \A k \in 1 .. Len(f.moves) : f.moves[k].isJump
              /\ f.depth < MaxQuiescenceDepth
        /\ (f.state = "done" /\ NoCapture(f)) =>
              f.score = evaluateBoard(f.board, 0)

\* quiescenceSearch has returned for a board on which the side to move has no
\* capture, with the score of a table entry that is not the stand-pat
\* evaluation of the board
C30_Witness ==
    /\ ai.phase = "search" /\ Len(ai.stack) > 1
    /\ Top.fn = "quiescenceSearch" /\ Top.state = "done"
    /\ Top.via = "table"
    /\ NoCapture(Top)
    /\ Top.score = Top.cachedEntry.score
    /\ Top.score # evaluateBoard(Top.board, 0)

-----------------------------------------------------------------------------
(* Properties of whole turns and of undo, checked under Spec.              *)

LastEntry == moveHistory[Len(moveHistory)]

\* the index in moveHistory of the first hop of the turn that hop k belongs
\* to: a later hop of a chain is recorded with multiJumpBefore set
RECURSIVE FirstHop(_, _)
FirstHop(h, k) ==
    IF k > 1 /\ IsSet(h[k].multiJumpBefore) THEN FirstHop(h, k - 1) ELSE k

TurnStart == moveHistory[FirstHop(moveHistory, Len(moveHistory))]

\* the turn made last is over and consisted of several hops
TurnOfSeveralHops ==
    /\ Len(moveHistory) > 1
    /\ ~IsSet(multiJumpPiece)
    /\ IsSet(LastEntry.multiJumpBefore)

UndoDone == call'.op = "undoMove" /\ call'.ret

\* C31: after a turn of several hops, one successful undoMove restores the
\* board, capturedPieces and currentPlayer as they were before the first hop
\* of that turn.
C31_UndoRestoresTurn ==
    [][(TurnOfSeveralHops /\ UndoDone)
          => /\ Plain(board') = TurnStart.boardBefore
             /\ capturedPieces' = TurnStart.capturedBefore
             /\ currentPlayer' = TurnStart.playerBefore]_vars

\* undoMove has returned true for the player whose unfinished chain it would
\* refuse to undo, so the turn undone was over; the game is back in the
\* middle of that turn: the first hop is still on record, its capture is
\* still made, and the piece waits for its next hop
C31_Witness ==
    /\ call.op = "undoMove" /\ call.ret
    /\ currentPlayer = humanPlayer
    /\ Len(moveHistory) > 0
    /\ ~IsSet(LastEntry.multiJumpBefore)
    /\ IsSet(multiJumpPiece)
    /\ Plain(board) # LastEntry.boardBefore
    /\ capturedPieces # LastEntry.capturedBefore
    /\ currentPlayer = LastEntry.playerBefore

\* a dark square
OnDark(x, y) == (x + y) % 2 = 1

\* where the moves of a list land
Landings(moves) == {<<moves[k][1], moves[k][2]>> : k \in 1 .. Len(moves)}

\* where getRegularMoves and findSingleJumps send the piece on square sq
LandingsFrom(b, sq) ==
    Landings(getRegularMoves(b, sq[1], sq[2], b[sq[2]][sq[1]]))
        \cup Landings(findSingleJumps(b, sq[1], sq[2], b[sq[2]][sq[1]]))

\* C32: every piece stands on a square of the board with (x + y) odd, and no
\* move that getRegularMoves or findSingleJumps generates from such a square
\* lands off the board or on a square with (x + y) even.
C32_DarkSquaresOnly ==
    \A sq \in Coord \X Coord :
        Occupied(board, sq[1], sq[2]) =>
            /\ OnDark(sq[1], sq[2])
            /\ \A to \in LandingsFrom(board, sq) :
                  isInBounds(to[1], to[2]) /\ OnDark(to[1], to[2])

\* a piece has just been moved, it stands where the move sent it, and the
\* board offers both a step and a capture to generate
C32_Witness ==
    /\ call.op = "movePiece" /\ call.ret
    /\ Occupied(board, call.x, call.y)
    /\ \E sq \in Coord \X Coord :
          Len(getRegularMoves(board, sq[1], sq[2], board[sq[2]][sq[1]])) > 0
    /\ \E sq \in Coord \X Coord :
          Len(findSingleJumps(board, sq[1], sq[2], board[sq[2]][sq[1]])) > 0

-----------------------------------------------------------------------------
(* Termination of the search, checked under SpecTreeFair.                  *)

Pieces(b) == PieceCount(b, "red") + PieceCount(b, "yellow")

\* the step is a searchMove, or a recursive call of quiescenceSearch
CallStep ==
    /\ ai.phase = "search" /\ ai'.phase = "search"
    /\ Len(ai'.stack) = Len(ai.stack) + 1

\* what every recursive call lowers: minimax is called one ply lower, or at
\* the same depth on a board with fewer pieces; quiescenceSearch is entered
\* at qDepth 0 below depth 1 and called at the next qDepth after that
CallDescends ==
    IF Top.fn = "quiescenceSearch"
    THEN /\ Callee.fn = "quiescenceSearch"
         /\ Callee.depth = Top.depth + 1
         /\ Callee.depth <= MaxQuiescenceDepth
    ELSE IF Callee.fn = "quiescenceSearch"
    THEN Top.depth = 1 /\ Callee.depth = 0
    ELSE \/ Callee.depth = Top.depth - 1 /\ Callee.depth >= 0
         \/ Callee.depth = Top.depth /\ Pieces(Callee.board) < Pieces(Top.board)

\* every hop that findPaths simulates from (x, y) takes one piece of the other
\* colour off its board, on every path
RECURSIVE HopsRemove(_, _, _, _)
HopsRemove(b, x, y, piece) ==
    \A jump \in {findSingleJumps(b, x, y, piece)[k] :
                    k \in 1 .. Len(findSingleJumps(b, x, y, piece))} :
        \E nextBoard \in {PathStep(b, x, y, jump)} :
            /\ PieceCount(nextBoard, Opponent(piece.color))
                  = PieceCount(b, Opponent(piece.color)) - 1
            /\ PieceCount(nextBoard, piece.color) = PieceCount(b, piece.color)
            /\ \/ ~piece.isKing /\ nextBoard[jump[2]][jump[1]].isKing
               \/ HopsRemove(nextBoard, jump[1], jump[2], nextBoard[jump[2]][jump[1]])

\* the paths of getJumpMoves on the boards the search generates moves for
PathsShrink ==
    \A f \in Frames : \A sq \in Coord \X Coord :
        Occupied(f.board, sq[1], sq[2]) =>
            HopsRemove(f.board, sq[1], sq[2], f.board[sq[2]][sq[1]])

\* a call of findBestMoveAtDepth is running
RootRunning == ai.phase = "search" /\ ai.stack # <<>>

\* that call has returned to the deepening loop, or the time was up
RootReturned ==
    \/ ai.phase = "search" /\ Len(ai.stack) = 1 /\ Top.state = "done"
    \/ ai.phase = "chosen" /\ ai.timedOut

\* C33: with no timeout findBestMoveAtDepth terminates: every recursive call
\* of minimax lowers depth or, at the same depth, the number of pieces on the
\* simulated board; every call of quiescenceSearch raises qDepth towards
\* MAX_QUIESCENCE_DEPTH; every hop of the paths of getJumpMoves removes the
\* piece it captures.
C33_SearchTerminates ==
    /\ [][CallStep => CallDescends]_vars
    /\ []PathsShrink
    /\ RootRunning ~> RootReturned

\* findBestMoveAtDepth has returned at the target depth after a search that
\* went through a continuation at the same depth and through quiescenceSearch
C33_Witness ==
    /\ ai.phase = "search" /\ Len(ai.stack) = 1
    /\ Top.state = "done" /\ Top.via = "search"
    /\ Top.depth = targetDepth
    /\ \E h \in DOMAIN ai.tt : ai.tt[h].depth = targetDepth

-----------------------------------------------------------------------------
(* Conservation of the pieces, checked under Spec.                         *)

\* the pieces a side starts with
PiecesPerSide == 12

\* the pieces of colour c on the board and in capturedPieces
Accounted(c) == PieceCount(board, c) + Len(capturedPieces[c])

\* the square the jump of the step captures on
CaptureSquare ==
    <<ChosenMove(validMoves, call'.x, call'.y)[3],
      ChosenMove(validMoves, call'.x, call'.y)[4]>>

\* a successful move lands on an empty square; a successful jump takes the
\* piece on its capture square, and no other, off the board and appends it to
\* the captured pieces of its colour
C34_Step ==
    /\ Moved => ~Occupied(board, call'.x, call'.y)
    /\ Jumped =>
          /\ board[CaptureSquare[2]][CaptureSquare[1]].color = Opponent(currentPlayer)
          /\ ~Occupied(board', CaptureSquare[1], CaptureSquare[2])
          /\ PieceCount(board', Opponent(currentPlayer))
                = PieceCount(board, Opponent(currentPlayer)) - 1
          /\ PieceCount(board', currentPlayer) = PieceCount(board, currentPlayer)
          /\ capturedPieces'[Opponent(currentPlayer)]
                = Append(capturedPieces[Opponent(currentPlayer)],
                         Plain(board)[CaptureSquare[2]][CaptureSquare[1]])
          /\ capturedPieces'[currentPlayer] = capturedPieces[currentPlayer]

\* C34: for each colour the pieces on the board and the captured pieces of
\* that colour are 12 together in every state, a move never lands on an
\* occupied square, and each successful jump removes exactly one opposing
\* piece and adds it to capturedPieces.
C34_PiecesConserved ==
    /\ [](\A c \in Colors : Accounted(c) = PiecesPerSide)
    /\ [][C34_Step]_vars

\* a jump was made and then undone, after an earlier jump that stays on record
C34_Witness ==
    /\ call.op = "undoMove" /\ call.ret /\ before.valid
    /\ Len(moveHistory) = 1
    /\ Len(capturedPieces[Opponent(currentPlayer)])
          = Len(LastEntry.capturedBefore[Opponent(currentPlayer)]) + 1
    /\ PieceCount(board, Opponent(currentPlayer))
          = PieceCount(LastEntry.boardBefore, Opponent(currentPlayer)) - 1

-----------------------------------------------------------------------------
(* Properties of the state of the game, checked under Spec.                *)

\* selectPiece(x, y) returns true and leaves moves to choose from, and
\* movePiece accepts the first of them
CanMoveFrom(g, x, y) ==
    \E r \in {selectPiece(g, x, y)} :
        /\ r.ret
        /\ Len(r.g.validMoves) > 0
        /\ movePiece(r.g, r.g.validMoves[1][1], r.g.validMoves[1][2]).ret

\* the squares the player to move can move from
Movable(g) == {sq \in Coord \X Coord : CanMoveFrom(g, sq[1], sq[2])}

\* C35: in every state with gameState 'active' the player to move can move:
\* for some square selectPiece returns true with validMoves that are not
\* empty; during a multi-jump that square is the one of multiJumpPiece.
C35_ActiveCanMove ==
    gameState = "active" =>
        /\ Movable(Game) # {}
        /\ \A sq \in Movable(Game) :
              board[sq[2]][sq[1]].color = currentPlayer
        /\ IsSet(multiJumpPiece) =>
              Movable(Game) = {<<multiJumpPiece.x, multiJumpPiece.y>>}

\* a move has ended a turn, the game goes on, and the side to move has one
\* piece it can move, while it has other pieces on the board
C35_Witness ==
    /\ call.op = "movePiece" /\ call.ret
    /\ gameState = "active"
    /\ ~IsSet(multiJumpPiece)
    /\ Cardinality(Movable(Game)) = 1
    /\ PieceCount(board, currentPlayer) > 1

-----------------------------------------------------------------------------
(* Properties of the renderer's scheduling, checked under SpecUI.          *)

\* it is the computer's turn in a game that goes on
ComputerToMove == gameState = "active" /\ currentPlayer = computerPlayer

\* C36: in single-player mode, after every handler has run, if gameState is
\* 'active' and currentPlayer is the computer's colour then an AI search is
\* scheduled (isComputerThinking is true).
C36_ComputerMoveScheduled == ComputerToMove => isComputerThinking

\* the undo button has taken back the computer's move: it is the computer's
\* turn, no search is scheduled and no callback is pending
C36_Witness ==
    /\ call.op = "undoClick" /\ call.ret
    /\ ComputerToMove
    /\ ~isComputerThinking
    /\ timers = 0
    /\ Len(moveHistory) = 1

\* the step is the callback of makeComputerMove, and ai.makeMove() made a move
\* to (call'.x, call'.y)
AiMoved == call'.op = "timer" /\ call'.ret

\* C37: every move the deferred AI callback applies moves a piece of the
\* computer's colour, also when startNewGame or undo came between the
\* scheduling and the callback.
C37_AiMovesOwnColour ==
    [][AiMoved => /\ currentPlayer = computerPlayer
                  /\ board'[call'.y][call'.x].color = computerPlayer]_vars

\* the callback has moved a piece of the human's colour in a new game: the
\* first move on record was made by the AI for red
C37_Witness ==
    /\ call.op = "timer" /\ call.ret
    /\ board[call.y][call.x].color = humanPlayer
    /\ Len(moveHistory) = 1
    /\ moveHistory[1].playerBefore = humanPlayer
    /\ moveHistory[1].boardBefore = createInitialBoard

-----------------------------------------------------------------------------
(* A multiplayer match: two renderers and the server between them. The     *)
(* host plays red and its game is the game of the variables above; the     *)
(* guest plays yellow and its game is remote.game. A 'move' message waits  *)
(* in hostOut or guestOut until the server handles it, and in toGuest or   *)
(* toHost until the other renderer's socket delivers it; each queue keeps  *)
(* the order of its messages.                                              *)

\* the messages of a match that can be under way at a time
MaxInFlight == 1

\* the part of the board the two players click on: its columns and its rows
MatchColumns == 0 .. 2
MatchRows == 2 .. 5

InFlight(r) == Len(r.hostOut) + Len(r.guestOut) + Len(r.toGuest) + Len(r.toHost)

\* the first line of onMouseDown, with isComputerThinking false
MatchClickIgnored(g, human) == g.gameState # "active" \/ g.currentPlayer # human

\* onMouseDown on the piece drawn at (x, y): the game afterwards
onMouseDownPiece(g, human, x, y) ==
    IF MatchClickIgnored(g, human) THEN g
    ELSE IF g.board[y][x].color = human THEN selectPiece(g, x, y).g
    ELSE Deselected(g)

\* onMouseDown on the square (x, y): the game afterwards and what sendMove
\* emits
onMouseDownSquare(g, human, x, y) ==
    IF MatchClickIgnored(g, human) THEN [g |-> g, ret |-> FALSE, sent |-> <<>>]
    ELSE IF IsSet(g.selectedPiece)
    THEN Once(movePiece(g, x, y),
              LAMBDA r : [g |-> r.g, ret |-> r.ret,
                          sent |-> IF r.ret
                                   THEN <<[fromX |-> g.selectedPiece.x,
                                           fromY |-> g.selectedPiece.y,
                                           toX |-> x, toY |-> y]>>
                                   ELSE <<>>])
    ELSE [g |-> Deselected(g), ret |-> FALSE, sent |-> <<>>]

\* socket.on('move') of a renderer: the game afterwards and whether the move
\* was made
socketOnMove(g, human, m) ==
    IF g.gameState = "active" /\ g.currentPlayer = Opponent(human)
    THEN movePiece(selectPiece(g, m.fromX, m.fromY).g, m.toX, m.toY)
    ELSE [g |-> g, ret |-> FALSE]

\* startMultiplayerGame(true, 'red', socket) of the host; nobody has joined
\* the room
InitMatch ==
    /\ GameIs(NewGame(createInitialBoard, "red", [red |-> <<>>, yellow |-> <<>>]))
    /\ humanPlayer = "red"
    /\ computerPlayer = "none"
    /\ isComputerThinking = FALSE
    /\ timers = 0
    /\ call = NoCall
    /\ before = NoBefore
    /\ rulesOut = <<>>
    /\ ai = AiIdle
    /\ remote = [joined |-> FALSE,
                 game |-> NewGame(createInitialBoard, "red",
                                  [red |-> <<>>, yellow |-> <<>>]),
                 hostOut |-> <<>>, guestOut |-> <<>>,
                 toGuest |-> <<>>, toHost |-> <<>>]

\* what a step of the match leaves alone
MatchRest == <<humanPlayer, computerPlayer, isComputerThinking, timers,
               before, rulesOut, ai>>

\* the host clicks on the piece at (x, y)
HostClickPiece(x, y) ==
    /\ Occupied(board, x, y)
    /\ SetGame(onMouseDownPiece(Game, humanPlayer, x, y))
    /\ call' = Called("hostClickPiece", FALSE, x, y)
    /\ UNCHANGED <<remote, MatchRest>>

\* the host clicks on the square (x, y)
HostClickSquare(x, y) ==
    /\ Len(moveHistory) < MaxHistory
    /\ InFlight(remote) < MaxInFlight
    /\ \E r \in {onMouseDownSquare(Game, humanPlayer, x, y)} :
        /\ SetGame(r.g)
        /\ remote' = [remote EXCEPT !.hostOut = @ \o r.sent]
        /\ call' = Called("hostClickSquare", r.ret, x, y)
    /\ UNCHANGED MatchRest

\* the host clicks on the undo button
HostUndo ==
    /\ \E r \in {undoMove(Game, isComputerThinking, humanPlayer)} :
        /\ SetGame(r.g)
        /\ call' = Called("hostUndo", r.ret, -1, -1)
    /\ UNCHANGED <<remote, MatchRest>>

\* the server's 'move' handler on a message of the host: io.to(room.guestId)
\* reaches nobody while room.guestId is null
ServerMoveFromHost ==
    /\ remote.hostOut # <<>>
    /\ remote' = [remote EXCEPT !.hostOut = Tail(@),
                                !.toGuest = IF remote.joined
                                            THEN Append(@, Head(remote.hostOut))
                                            ELSE @]
    /\ call' = Called("serverMove", remote.joined, -1, -1)
    /\ UNCHANGED <<gameVars, MatchRest>>

\* the server's 'move' handler on a message of the guest
ServerMoveFromGuest ==
    /\ remote.guestOut # <<>>
    /\ remote' = [remote EXCEPT !.guestOut = Tail(@),
                                !.toHost = Append(@, Head(remote.guestOut))]
    /\ call' = Called("serverMove", TRUE, -1, -1)
    /\ UNCHANGED <<gameVars, MatchRest>>

\* socket.on('move') of the host
HostReceives ==
    /\ remote.toHost # <<>>
    /\ Len(moveHistory) < MaxHistory
    /\ \E r \in {socketOnMove(Game, humanPlayer, Head(remote.toHost))} :
        /\ SetGame(r.g)
        /\ call' = Called("hostReceives", r.ret, -1, -1)
    /\ remote' = [remote EXCEPT !.toHost = Tail(@)]
    /\ UNCHANGED MatchRest

\* startMultiplayerGame(true, 'yellow', socket, gameCode) of the guest and
\* the server's 'joinGame' handler
GuestJoins ==
    /\ ~remote.joined
    /\ remote' = [remote EXCEPT !.joined = TRUE]
    /\ call' = Called("guestJoins", TRUE, -1, -1)
    /\ UNCHANGED <<gameVars, MatchRest>>

\* the guest clicks on the piece at (x, y)
GuestClickPiece(x, y) ==
    /\ remote.joined
    /\ Occupied(remote.game.board, x, y)
    /\ remote' = [remote EXCEPT !.game = onMouseDownPiece(@, "yellow", x, y)]
    /\ call' = Called("guestClickPiece", FALSE, x, y)
    /\ UNCHANGED <<gameVars, MatchRest>>

\* the guest clicks on the square (x, y)
GuestClickSquare(x, y) ==
    /\ remote.joined
    /\ Len(remote.game.moveHistory) < MaxHistory
    /\ InFlight(remote) < MaxInFlight
    /\ \E r \in {onMouseDownSquare(remote.game, "yellow", x, y)} :
        /\ remote' = [remote EXCEPT !.game = r.g, !.guestOut = @ \o r.sent]
        /\ call' = Called("guestClickSquare", r.ret, x, y)
    /\ UNCHANGED <<gameVars, MatchRest>>

\* the guest clicks on the undo button
GuestUndo ==
    /\ remote.joined
    /\ \E r \in {undoMove(remote.game, FALSE, "yellow")} :
        /\ remote' = [remote EXCEPT !.game = r.g]
        /\ call' = Called("guestUndo", r.ret, -1, -1)
    /\ UNCHANGED <<gameVars, MatchRest>>

\* socket.on('move') of the guest
GuestReceives ==
    /\ remote.joined
    /\ remote.toGuest # <<>>
    /\ Len(remote.game.moveHistory) < MaxHistory
    /\ \E r \in {socketOnMove(remote.game, "yellow", Head(remote.toGuest))} :
        /\ remote' = [remote EXCEPT !.game = r.g, !.toGuest = Tail(@)]
        /\ call' = Called("guestReceives", r.ret, -1, -1)
    /\ UNCHANGED <<gameVars, MatchRest>>

NextMatch ==
    \/ \E x \in MatchColumns, y \in MatchRows : HostClickPiece(x, y)
    \/ \E x \in MatchColumns, y \in MatchRows : HostClickSquare(x, y)
    \/ HostUndo
    \/ ServerMoveFromHost
    \/ ServerMoveFromGuest
    \/ HostReceives
    \/ GuestJoins
    \/ \E x \in MatchColumns, y \in MatchRows : GuestClickPiece(x, y)
    \/ \E x \in MatchColumns, y \in MatchRows : GuestClickSquare(x, y)
    \/ GuestUndo
    \/ GuestReceives

SpecMatch == InitMatch /\ [][NextMatch]_vars

-----------------------------------------------------------------------------
(* Properties of a match, checked under SpecMatch *)

\* the guest is in the room and every move sent has been delivered
Delivered == remote.joined /\ InFlight(remote) = 0

PeersAgree ==
    /\ Plain(board) = Plain(remote.game.board)
    /\ currentPlayer = remote.game.currentPlayer

\* a renderer's socket hands a 'move' message to its handler
MoveArrives == call'.op \in {"hostReceives", "guestReceives"} /\ call' # call

\* C38: with the moves delivered in order the two games of a match stay the
\* same: once the guest is in the room and no move is under way both show the
\* same board and the same player to move, and every move that arrives is made
\* by the renderer it arrives at -- also for the moves the host made before
\* the guest joined and for the moves made after a local undo
C38_PeersStayIdentical ==
    /\ [](Delivered => PeersAgree)
    /\ [][MoveArrives => call'.ret]_vars

\* the host has moved and the server has handled the move before the guest
\* joined: nothing is under way, and the guest's game is a move behind
C38_Witness ==
    /\ Delivered
    /\ call.op = "guestJoins"
    /\ Len(moveHistory) = 1
    /\ remote.game.moveHistory = <<>>
    /\ ~PeersAgree

-----------------------------------------------------------------------------
(* Properties of a finished game and of undo after a move, checked under   *)
(* Spec *)

Finished == gameState \in Terminal

\* selectPiece or movePiece has been called
SelectOrMove == call'.op \in {"selectPiece", "movePiece"}

C39_Step ==
    Finished =>
        /\ SelectOrMove =>
              /\ ~call'.ret
              /\ UNCHANGED <<board, capturedPieces, currentPlayer, moveHistory>>
        /\ gameState' # gameState => call'.op = "undoMove"

\* C39: once the game is won or drawn, selectPiece and movePiece return false
\* and leave the board, the captured pieces, the player to move and the
\* history as they are, and only undoMove leaves the finished state
C39_FinishedGameIsFrozen == [][C39_Step]_vars

\* the game counts as won in the middle of a chain, and selectPiece has
\* returned true for the chain's piece
C39_Witness ==
    /\ Finished
    /\ call.op = "selectPiece" /\ call.ret
    /\ IsSet(multiJumpPiece)
    /\ validMoves # <<>>

\* a square and the colour and rank of the piece on it
PlainSquare(s) == <<s.x, s.y, s.piece.color, s.piece.isKing>>

\* undoMove returns true right after movePiece has returned true
UndoAfterMove ==
    /\ call.op = "movePiece" /\ call.ret /\ before.valid
    /\ call'.op = "undoMove" /\ call'.ret

\* C40: a successful undoMove right after a successful movePiece also brings
\* gameState and multiJumpPiece back to what they were before the move; the
\* undo of a later hop of a chain leaves the game active in the middle of the
\* chain
C40_UndoRestoresState ==
    [][UndoAfterMove =>
          /\ gameState' = before.gameState
          /\ PlainSquare(multiJumpPiece') = PlainSquare(before.multiJumpPiece)]_vars

\* a later hop of a chain has been undone: the chain's piece is back on its
\* square, and the game that was active before the hop counts as won
C40_Witness ==
    /\ call.op = "undoMove" /\ call.ret /\ before.valid
    /\ IsSet(before.multiJumpPiece)
    /\ IsSet(multiJumpPiece)
    /\ before.gameState = "active"
    /\ gameState \in Terminal

====
